---- MODULE Spec2Model ----
(***************************************************************************)
(* Model of the BTC up/down prediction exchange: the matching engine       *)
(* (TradingEngine), the ledger adapter (db-trading) and the round          *)
(* lifecycle controller (PriceWebSocketServer).                            *)
(*                                                                         *)
(* Money is counted in integer cents.  The ledger stores dollars with two  *)
(* decimals (NUMERIC(12,2)) and every amount the engine passes to it is    *)
(* k/100 for an integer k (costPerShare * shares / 100), which toFixed(2)  *)
(* renders exactly, so k cents is the value stored.                        *)
(*                                                                         *)
(* Four specifications share the variables:                                *)
(*   Spec      the engine in an active round, requests handled one at a    *)
(*             time                                                        *)
(*   SpecRound a whole round: liquidity, activation, trading, settlement   *)
(*   SpecConc  two limit placements interleaving at their awaited calls    *)
(*   SpecLife  the lifecycle controller: clock, price updates and ticks    *)
(***************************************************************************)
EXTENDS Integers, Sequences, FiniteSets, TLC

\* ------------------------------------------------------------------------
\* Bounds of the model and program constants
\* ------------------------------------------------------------------------
Users == {1, 2}
MaxOrders == 3
MaxMarketOrders == 1
MaxStopOrders == 1
MaxRoundOrders == 2
PriceGrid == {30, 60}
StopPriceGrid == {60}
ShareGrid == {1, 2}
MarketShareGrid == {2}
StopShareGrid == {2}
LiquidityGrid == {3}
PoorBalance == 100
RichBalance == 400
minPrice == 1
maxPrice == 99
maxSharesPerOrder == 10000
NoPrice == 0
MaxMinute == 4
MaxSkip == 2
PriceLevels == {1, 2}
Makers == {1}
Takers == {2, 3}
ConcUsers == Makers \cup Takers
ConcSideOutcomes == {<<"sell", "yes">>}
MaxCancelOrders == 3
Cancellers == {1, 2}
CancelSideOutcomes == {<<"buy", "yes">>, <<"sell", "yes">>}
CancelPriceGrid == {60}
MaxRestartOrders == 2
MaxFokOrders == 3
FokTakers == {1, 2}
FokShareGrid == {1, 2}
FutureMarkets == 5
ProvisionLeadMinutes == 5
CleanupAgeMinutes == 10
InitBalance == [u \in Users |-> IF u = 1 THEN PoorBalance ELSE RichBalance]
SideOutcomes == {<<"buy", "yes">>, <<"buy", "no">>, <<"sell", "yes">>, <<"sell", "no">>}

VARIABLES
  balance,      \* users.balance, in cents
  orders,       \* the orders table: a sequence of rows, row i has id i
  trades,       \* the trades table
  positions,    \* the positions table of the round: user -> [yes, no]
  bids,         \* book.bids of the round: order ids, in array order
  asks,         \* book.asks of the round
  ent,          \* the BookEntry objects, by order id
  stops,        \* this.stops of the round: the parked stop entries
  phase,        \* markets[round].phase of the engine's round
  clock,        \* the ledger's NOW(), in milliseconds
  deducted,     \* sum of the deductions made for orders of the round
  refunded,     \* sum of the credits made for orders of the round
  lastError,    \* the error the last placement or liquidity request threw, or Ok
  accepted,     \* the order_accepted messages sent: <<userId, order id>>
  notices,      \* the order_cancelled messages sent: [userId, orderId, refund, reason]
  provisions,   \* the liquidity_provisions rows of the round
  procs,        \* SpecConc: the placements in flight
  locks,        \* SpecConc: row locks held by open transactions
  now,          \* SpecLife: Date.now(), in minutes
  lastPrice,    \* SpecLife: this.lastPrice
  currentMinuteStart, \* SpecLife: this.currentMinuteStart
  markets,      \* SpecLife: this.markets, by minute start
  settleInvoked, \* SpecLife: the rounds tradingEngine.settleRound was called for
  exchange,     \* SpecAdapter: one exchange adapter and its socket and timers
  prices,       \* SpecFeed: aggregator.prices, exchange name -> newest sample
  aggregate,    \* SpecFeed: the aggregate events emitted
  feedNow,      \* SpecFeed: Date.now(), in aggregation intervals
  inbox,        \* SpecPlace: the place_order message handled last, and its sender
  readyState,   \* SpecAuth: the client connections: "new", "open" or "closed"
  authenticatedClients, \* SpecAuth: connection -> the user it authenticated as
  userSockets,  \* SpecAuth: user -> the connections sendToUser writes to
  lookups       \* SpecAuth: the db.getUser calls of auth messages in flight

engineVars == <<balance, orders, trades, positions, bids, asks, ent, stops, phase,
                clock, deducted, refunded, lastError, accepted, notices, provisions>>
concVars == <<procs, locks>>
feedVars == <<exchange, prices, aggregate, feedNow>>
wsVars == <<readyState, authenticatedClients, userSockets, lookups>>
lifeVars == <<now, lastPrice, currentMinuteStart, markets, settleInvoked, feedVars,
             inbox, wsVars>>
vars == <<engineVars, concVars, lifeVars>>

\* ------------------------------------------------------------------------
\* TradingEngine: normalisation and validation
\* ------------------------------------------------------------------------
normalize(side, outcome, price) ==
  IF side = "buy" /\ outcome = "yes"
    THEN [bookSide |-> "bid", bookPrice |-> price, costPerShare |-> price]
  ELSE IF side = "buy" /\ outcome = "no"
    THEN [bookSide |-> "ask", bookPrice |-> 100 - price, costPerShare |-> price]
  ELSE IF side = "sell" /\ outcome = "yes"
    THEN [bookSide |-> "ask", bookPrice |-> price, costPerShare |-> 100 - price]
  ELSE [bookSide |-> "bid", bookPrice |-> 100 - price, costPerShare |-> 100 - price]

\* the price a market order passes to normalize: 99 for buy-yes and sell-no, else 1
marketPrice(side, outcome) ==
  IF (side = "buy" /\ outcome = "yes") \/ (side = "sell" /\ outcome = "no")
    THEN 99 ELSE 1

validateParams(userId, side, outcome, shares, price) ==
  IF ~(side \in {"buy", "sell"}) THEN "Invalid side"
  ELSE IF ~(outcome \in {"yes", "no"}) THEN "Invalid outcome"
  ELSE IF shares <= 0 THEN "Shares must be a positive integer"
  ELSE IF shares > maxSharesPerOrder THEN "Max shares per order"
  ELSE IF price # NoPrice /\ (price < minPrice \/ price > maxPrice)
    THEN "Price must be an integer between minPrice and maxPrice"
  ELSE "ok"

\* ------------------------------------------------------------------------
\* db-trading: ledger primitives on a state record
\*   st = [balance, orders, trades, bids, asks, ent, stops, deducted, refunded,
\*         accepted]
\* ------------------------------------------------------------------------
insertOrder(st, o) ==
  [st EXCEPT !.orders = Append(@,
     [id |-> Len(st.orders) + 1, user_id |-> o.userId, side |-> o.side,
      outcome |-> o.outcome, book_side |-> o.bookSide, order_type |-> o.orderType,
      price |-> o.price, stop_price |-> o.stopPrice, shares |-> o.shares,
      filled_shares |-> 0, remaining_shares |-> o.shares,
      cost_per_share |-> o.costPerShare, status |-> o.status,
      created_at |-> o.createdAt])]

updateOrderFill(row, filledQty) ==
  [row EXCEPT !.filled_shares = @ + filledQty,
              !.remaining_shares = @ - filledQty,
              !.status = IF row.remaining_shares - filledQty = 0
                           THEN "filled" ELSE "partially_filled"]

\* a status test that lets every order through
Cancellable_Any(row) == TRUE

Cancellable(row) == row.status \in {"open", "partially_filled", "stopped"}

\* an UPDATE that matches no row
dbCancelOrder_Kept(row, userId) == row

dbCancelOrder(row, userId) ==
  IF row.user_id = userId /\ Cancellable(row)
    THEN [row EXCEPT !.status = "cancelled"] ELSE row

activateStopOrder(row) ==
  IF row.status = "stopped" THEN [row EXCEPT !.status = "open"] ELSE row

\* an order_cancelled message without a reason field
NoReason == "none"

Err(msg) == [msg |-> msg, available |-> 0, need |-> 0]
Ok == Err("ok")

\* a ledger whose deduction carries no balance condition
deductBalance_Unguarded(st, userId, amount) ==
  [st |-> [st EXCEPT !.balance[userId] = @ - amount], err |-> [msg |-> "ok", available |-> 0, need |-> 0]]

\* the WHERE clause of deductBalance: id = $1 AND balance >= $2
CanDeduct(bal, userId, amount) == bal[userId] >= amount

\* the statement updates no row and the function throws unless CanDeduct
deductBalance(st, userId, amount) ==
  IF CanDeduct(st.balance, userId, amount)
    THEN [st |-> [st EXCEPT !.balance[userId] = @ - amount], err |-> Ok]
    ELSE [st |-> st, err |-> Err("Insufficient balance")]

creditBalance(st, userId, amount) == [st EXCEPT !.balance[userId] = @ + amount]

\* a deduction or a credit made for an order of the round, with the round's books kept
orderDeduct(st, userId, amount) ==
  LET d == deductBalance(st, userId, amount)
  IN IF d.err = Ok THEN [st |-> [d.st EXCEPT !.deducted = @ + amount], err |-> Ok] ELSE d

orderCredit(st, userId, amount) ==
  [creditBalance(st, userId, amount) EXCEPT !.refunded = @ + amount]

\* an upsert that adds the YES shares only
upsertPosition_YesOnly(pos, userId, yesDelta, noDelta) ==
  IF userId \in DOMAIN pos
    THEN [pos EXCEPT ![userId] = [yesShares |-> @.yesShares + yesDelta,
                                  noShares |-> @.noShares]]
    ELSE (userId :> [yesShares |-> yesDelta, noShares |-> 0]) @@ pos

\* INSERT ... ON CONFLICT (user_id, round_start) DO UPDATE SET
\* yes_shares = positions.yes_shares + $3, no_shares = positions.no_shares + $4
upsertPosition(pos, userId, yesDelta, noDelta) ==
  IF userId \in DOMAIN pos
    THEN [pos EXCEPT ![userId] = [yesShares |-> @.yesShares + yesDelta,
                                  noShares |-> @.noShares + noDelta]]
    ELSE (userId :> [yesShares |-> yesDelta, noShares |-> noDelta]) @@ pos

\* the functions db-trading exports (module.exports)
dbTradingExports ==
  {"insertOrder", "updateOrderFill", "cancelOrder", "cancelAllRoundOrders", "getOrder",
   "getUserOrders", "getOpenRoundOrders", "getStoppedRoundOrders", "activateStopOrder",
   "insertTrade", "getOrderTrades", "upsertPosition", "getPosition", "getAllPositions",
   "insertLiquidityProvision", "getTotalLiquidity", "deductBalance", "creditBalance",
   "getBalanceForUpdate", "pool"}


\* ------------------------------------------------------------------------
\* TradingEngine: book management.  bids and asks hold order ids; the
\* BookEntry object of order id is ent[id], so that a reference to an entry
\* (const resting = opposingSide[i]) outlives its removal from the array.
\* ------------------------------------------------------------------------
Min(a, b) == IF a < b THEN a ELSE b

\* an awaited call followed by the code that uses its result: x is evaluated
\* once and F is applied to its value
Then(x, F(_)) == CHOOSE r \in {F(v) : v \in {x}} : TRUE

SpliceIn(arr, i, x) == SubSeq(arr, 1, i - 1) \o <<x>> \o SubSeq(arr, i, Len(arr))
SpliceOut(arr, i) == SubSeq(arr, 1, i - 1) \o SubSeq(arr, i + 1, Len(arr))

\* a bid scan that keeps the lower price ahead
bidStaysAhead_Ascending(x, e) ==
  x.price < e.price \/ (x.price = e.price /\ x.createdAt <= e.createdAt)

\* an ask scan that keeps the higher price ahead
askStaysAhead_Descending(x, e) ==
  x.price > e.price \/ (x.price = e.price /\ x.createdAt <= e.createdAt)

\* the loop condition of insertBid: the scan steps over x when inserting e
bidStaysAhead(x, e) ==
  x.price > e.price \/ (x.price = e.price /\ x.createdAt <= e.createdAt)

\* the loop condition of insertAsk
askStaysAhead(x, e) ==
  x.price < e.price \/ (x.price = e.price /\ x.createdAt <= e.createdAt)

RECURSIVE insertBidPos(_, _, _, _)
insertBidPos(arr, E, e, i) ==
  IF i <= Len(arr) /\ bidStaysAhead(E[arr[i]], e)
    THEN insertBidPos(arr, E, e, i + 1) ELSE i

RECURSIVE insertAskPos(_, _, _, _)
insertAskPos(arr, E, e, i) ==
  IF i <= Len(arr) /\ askStaysAhead(E[arr[i]], e)
    THEN insertAskPos(arr, E, e, i + 1) ELSE i

insertBid(arr, E, e) == SpliceIn(arr, insertBidPos(arr, E, e, 1), e.id)
insertAsk(arr, E, e) == SpliceIn(arr, insertAskPos(arr, E, e, 1), e.id)

\* splice the first element equal to orderId, if any
removeFromBook(arr, orderId) ==
  IF \E i \in 1..Len(arr) : arr[i] = orderId
    THEN SpliceOut(arr, CHOOSE i \in 1..Len(arr) :
                          arr[i] = orderId /\ \A j \in 1..(i - 1) : arr[j] # orderId)
    ELSE arr

\* the entry an order comes to rest with (placeLimitOrder, checkStopOrders)
BookEntry(id, userId, price, remainingShares, costPerShare, bookSide, createdAt) ==
  [id |-> id, userId |-> userId, price |-> price, remainingShares |-> remainingShares,
   costPerShare |-> costPerShare, bookSide |-> bookSide, createdAt |-> createdAt]

\* rest entry e in the book: insertBid(book.bids, entry) or insertAsk(book.asks, entry)
restInBook(st, e) ==
  LET E == (e.id :> e) @@ st.ent
  IN IF e.bookSide = "bid"
       THEN [st EXCEPT !.ent = E, !.bids = insertBid(st.bids, E, e)]
       ELSE [st EXCEPT !.ent = E, !.asks = insertAsk(st.asks, E, e)]

\* ------------------------------------------------------------------------
\* TradingEngine.matchOrder
\* ------------------------------------------------------------------------
\* the crossing check: the loop breaks when the incoming order does not cross
Crosses(isBid, incPrice, restingPrice) ==
  IF isBid THEN ~(incPrice < restingPrice) ELSE ~(incPrice > restingPrice)

\* a matcher that never skips a resting entry
SameUser_Never(restingUserId, incomingUserId) == FALSE

\* self-trade prevention: the resting entry is skipped
SameUser(restingUserId, incomingUserId) == restingUserId = incomingUserId

\* a matcher that executes at the incoming order's price
ExecPrice_Taker(resting, inc) == inc.price

\* execution price: the maker's
ExecPrice(resting, inc) == resting.price

\* a matcher that takes every taker for a bid
takerActualCost_Bid(isBid, execPrice) == execPrice

\* what the taker really pays per share at execPrice
takerActualCost(isBid, execPrice) == IF isBid THEN execPrice ELSE 100 - execPrice

\* an entry the incoming order could have been matched with has priority over
\* resting: better price, or the same price and an earlier createdAt
HasPriorityOver(isBid, e, resting) ==
  \/ (IF isBid THEN e.price < resting.price ELSE e.price > resting.price)
  \/ (e.price = resting.price /\ e.createdAt < resting.createdAt)

\* the entries of the opposing side the incoming order could be matched with
\* instead of resting: of another user, with shares left, at a crossing price
Matchable(st, inc, isBid, opp, resting) ==
  {j \in 1..Len(opp) :
     LET e == st.ent[opp[j]]
     IN /\ e.id # resting.id
        /\ e.userId # inc.user_id
        /\ e.remainingShares > 0
        /\ Crosses(isBid, inc.price, e.price)}

\* resting is filled although a matchable entry has priority over it
Jumped(st, inc, isBid, opp, resting) ==
  \E j \in Matchable(st, inc, isBid, opp, resting) :
    HasPriorityOver(isBid, st.ent[opp[j]], resting)

\* the matchable entries resting has priority over
Behind(st, inc, isBid, opp, resting) ==
  Cardinality({j \in Matchable(st, inc, isBid, opp, resting) :
                 HasPriorityOver(isBid, resting, st.ent[opp[j]])})

\* one fill of the loop body, lines 246-311: returns the state after it
fillOnce(st, inc, isBid, i, remainingShares) ==
  LET opp == IF isBid THEN st.asks ELSE st.bids
      resting == st.ent[opp[i]]
      fillQty == Min(remainingShares, resting.remainingShares)
      execPrice == ExecPrice(resting, inc)
      savings == inc.cost_per_share - takerActualCost(isBid, execPrice)
      st1 == IF savings > 0
               THEN orderCredit(st, inc.user_id, savings * fillQty) ELSE st
      trade == [bid_order_id |-> IF isBid THEN inc.id ELSE resting.id,
                ask_order_id |-> IF isBid THEN resting.id ELSE inc.id,
                yes_user_id |-> IF isBid THEN inc.user_id ELSE resting.userId,
                no_user_id |-> IF isBid THEN resting.userId ELSE inc.user_id,
                price |-> execPrice, shares |-> fillQty,
                maker |-> resting.id, taker |-> inc.id,
                jumped |-> Jumped(st, inc, isBid, opp, resting),
                behind |-> Behind(st, inc, isBid, opp, resting)]
      newRem == resting.remainingShares - fillQty
      opp2 == IF newRem <= 0 THEN SpliceOut(opp, i) ELSE opp
  IN [st1 EXCEPT
        !.trades = Append(@, trade),
        !.orders = [@ EXCEPT ![resting.id] = updateOrderFill(@, fillQty),
                             ![inc.id] = updateOrderFill(@, fillQty)],
        !.ent = [@ EXCEPT ![resting.id].remainingShares = newRem],
        !.asks = IF isBid THEN opp2 ELSE @,
        !.bids = IF isBid THEN @ ELSE opp2]

\* the while loop of matchOrder: [st, remainingShares, nfills] at its exit
RECURSIVE matchLoop(_, _, _, _, _)
matchLoop(st, inc, i, remainingShares, nfills) ==
  LET isBid == inc.book_side = "bid"
      opp == IF isBid THEN st.asks ELSE st.bids
  IN IF ~(remainingShares > 0 /\ i <= Len(opp))
       THEN [st |-> st, remainingShares |-> remainingShares, nfills |-> nfills]
     ELSE LET resting == st.ent[opp[i]]
          IN IF SameUser(resting.userId, inc.user_id)
               THEN matchLoop(st, inc, i + 1, remainingShares, nfills)
             ELSE IF ~Crosses(isBid, inc.price, resting.price)
               THEN [st |-> st, remainingShares |-> remainingShares, nfills |-> nfills]
             ELSE LET fillQty == Min(remainingShares, resting.remainingShares)
                      gone == resting.remainingShares - fillQty <= 0
                  IN Then(fillOnce(st, inc, isBid, i, remainingShares),
                          LAMBDA st2 : matchLoop(st2, inc, IF gone THEN i ELSE i + 1,
                                                 remainingShares - fillQty, nfills + 1))

\* matchOrder(incomingOrder, opposingSide, roundStart, client)
matchOrder(st, inc) ==
  Then(matchLoop(st, inc, 1, inc.remaining_shares, 0),
       LAMBDA r : [st |-> r.st,
                   filledShares |-> inc.remaining_shares - r.remainingShares,
                   nfills |-> r.nfills])

\* ------------------------------------------------------------------------
\* TradingEngine.checkStopOrders
\* ------------------------------------------------------------------------
shouldTrigger(stop, bestBid, bestAsk) ==
  IF stop.bookSide = "bid" /\ bestAsk # NoPrice THEN bestAsk <= stop.stopPrice
  ELSE IF stop.bookSide = "ask" /\ bestBid # NoPrice THEN bestBid >= stop.stopPrice
  ELSE FALSE

\* this.sendToUser(userId, { type: 'order_cancelled', orderId, refund, reason })
sendCancelled(st, userId, orderId, refund, reason) ==
  [st EXCEPT !.notices = @ \cup {[userId |-> userId, orderId |-> orderId,
                                   refund |-> refund, reason |-> reason]}]

\* one iteration of the loop over the triggered stops, lines 778-841
triggerOne(st, stop) ==
  Then(orderDeduct([st EXCEPT !.orders[stop.id] = activateStopOrder(@)],
                   stop.userId, stop.costPerShare * stop.remainingShares),
       LAMBDA d :
         IF d.err # Ok
           \* deductBalance throws: ROLLBACK undoes activateStopOrder, then
           \* dbTrading.cancelOrder(stop.id, stop.userId) outside any transaction
           THEN sendCancelled(
                  [st EXCEPT !.orders[stop.id] = dbCancelOrder(@, stop.userId)],
                  stop.userId, stop.id, 0, "Insufficient balance at trigger")
           ELSE Then(matchOrder(d.st, d.st.orders[stop.id]),
                     LAMBDA m :
                       LET order == d.st.orders[stop.id]
                           unfilled == order.remaining_shares - m.filledShares
                       IN IF unfilled > 0
                            THEN restInBook(m.st, BookEntry(stop.id, stop.userId,
                                   stop.price, unfilled, stop.costPerShare,
                                   stop.bookSide, order.created_at))
                            ELSE m.st))

\* a check that leaves the stop set as it was
partitionRemaining_All(arr, bestBid, bestAsk) == arr

\* the stops that stay parked: this.stops.set(roundStart, remaining)
partitionRemaining(arr, bestBid, bestAsk) ==
  SelectSeq(arr, LAMBDA s : ~shouldTrigger(s, bestBid, bestAsk))

RECURSIVE processTriggered(_, _, _)
processTriggered(st, triggered, k) ==
  IF k > Len(triggered) THEN st
  ELSE Then(triggerOne(st, triggered[k]),
            LAMBDA st2 : processTriggered(st2, triggered, k + 1))

checkStopOrders(st) ==
  IF Len(st.stops) = 0 THEN st
  ELSE LET bestBid == IF Len(st.bids) > 0 THEN st.ent[st.bids[1]].price ELSE NoPrice
           bestAsk == IF Len(st.asks) > 0 THEN st.ent[st.asks[1]].price ELSE NoPrice
           remaining == partitionRemaining(st.stops, bestBid, bestAsk)
       IN Then(SelectSeq(st.stops, LAMBDA s : shouldTrigger(s, bestBid, bestAsk)),
               LAMBDA triggered :
                 Then([st EXCEPT !.stops = remaining],
                      LAMBDA st1 : processTriggered(st1, triggered, 1)))

\* ------------------------------------------------------------------------
\* TradingEngine: order placement.  Each returns [st, err]: the state the
\* request leaves and the message of the error it throws ("ok" if none).
\* ------------------------------------------------------------------------
\* a placement that tells nobody
sendAccepted_Never(st, userId, orderId) == st

\* this.sendToUser(userId, { type: 'order_accepted', order, fills })
sendAccepted(st, userId, orderId) ==
  [st EXCEPT !.accepted = @ \cup {<<userId, orderId>>}]

LastOrder(st) == st.orders[Len(st.orders)]

placeLimitOrder(st, userId, side, outcome, shares, price, t) ==
  LET v == validateParams(userId, side, outcome, shares, price)
      n == normalize(side, outcome, price)
      totalCost == n.costPerShare * shares
      row == [userId |-> userId, side |-> side, outcome |-> outcome,
              bookSide |-> n.bookSide, orderType |-> "limit",
              price |-> n.bookPrice, stopPrice |-> NoPrice, shares |-> shares,
              costPerShare |-> n.costPerShare, status |-> "open", createdAt |-> t]
  IN IF v # "ok" THEN [st |-> st, err |-> Err(v)]
     ELSE Then(orderDeduct(st, userId, totalCost), LAMBDA d :
       IF d.err # Ok THEN [st |-> st, err |-> d.err]
       ELSE Then(insertOrder(d.st, row), LAMBDA st2 :
         Then(matchOrder(st2, LastOrder(st2)), LAMBDA m :
           LET order == LastOrder(st2)
               unfilled == shares - m.filledShares
           IN Then(sendAccepted(
                     IF unfilled > 0
                       THEN restInBook(m.st, BookEntry(order.id, userId, n.bookPrice,
                              unfilled, n.costPerShare, n.bookSide, order.created_at))
                       ELSE m.st,
                     userId, order.id),
                   LAMBDA st3 :
                     [st |-> IF m.nfills > 0 THEN checkStopOrders(st3) ELSE st3,
                      err |-> Ok]))))

\* an UPDATE that leaves the row of the market order as matchOrder left it
killResidual_Kept(row) == row

\* UPDATE orders SET status = CASE WHEN filled_shares > 0 THEN 'partially_filled'
\* ELSE 'cancelled' END, remaining_shares = 0
killResidual(row) ==
  [row EXCEPT !.status = IF row.filled_shares > 0 THEN "partially_filled" ELSE "cancelled",
              !.remaining_shares = 0]

placeMarketFAK(st, userId, side, outcome, shares, t) ==
  LET v == validateParams(userId, side, outcome, shares, NoPrice)
      n == normalize(side, outcome, marketPrice(side, outcome))
      bookPrice == IF n.bookSide = "bid" THEN 99 ELSE 1
      totalCost == n.costPerShare * shares
      row == [userId |-> userId, side |-> side, outcome |-> outcome,
              bookSide |-> n.bookSide, orderType |-> "market_fak",
              price |-> bookPrice, stopPrice |-> NoPrice, shares |-> shares,
              costPerShare |-> n.costPerShare, status |-> "open", createdAt |-> t]
  IN IF v # "ok" THEN [st |-> st, err |-> Err(v)]
     ELSE Then(orderDeduct(st, userId, totalCost), LAMBDA d :
       IF d.err # Ok THEN [st |-> st, err |-> d.err]
       ELSE Then(insertOrder(d.st, row), LAMBDA st2 :
         Then(matchOrder(st2, LastOrder(st2)), LAMBDA m :
           LET order == LastOrder(st2)
               unfilledShares == shares - m.filledShares
           IN Then(sendAccepted(
                     IF unfilledShares > 0
                       THEN orderCredit(
                              [m.st EXCEPT !.orders[order.id] = killResidual(@)],
                              userId, n.costPerShare * unfilledShares)
                       ELSE m.st,
                     userId, order.id),
                   LAMBDA st3 :
                     [st |-> IF m.nfills > 0 THEN checkStopOrders(st3) ELSE st3,
                      err |-> Ok]))))

\* the pre-check loop of placeMarketFOK, lines 436-441
RECURSIVE fokAvailable(_, _, _, _, _)
fokAvailable(st, opp, userId, shares, i) ==
  IF i > Len(opp) THEN 0
  ELSE IF st.ent[opp[i]].userId = userId THEN fokAvailable(st, opp, userId, shares, i + 1)
  ELSE IF st.ent[opp[i]].remainingShares >= shares THEN st.ent[opp[i]].remainingShares
  ELSE st.ent[opp[i]].remainingShares
         + fokAvailable(st, opp, userId, shares - st.ent[opp[i]].remainingShares, i + 1)

\* placeMarketFOK up to its first await: validation and the liquidity
\* pre-check, lines 424-445
fokCheck(st, userId, side, outcome, shares) ==
  LET v == validateParams(userId, side, outcome, shares, NoPrice)
      n == normalize(side, outcome, marketPrice(side, outcome))
      opposingSide == IF n.bookSide = "bid" THEN st.asks ELSE st.bids
      available == fokAvailable(st, opposingSide, userId, shares, 1)
  IN IF v # "ok" THEN Err(v)
     ELSE IF available < shares
       THEN [msg |-> "Insufficient liquidity", available |-> available,
             need |-> shares]
     ELSE Ok

\* placeMarketFOK from pool.connect() on: the transaction, lines 447-493
fokCommit(st, userId, side, outcome, shares, t) ==
  LET n == normalize(side, outcome, marketPrice(side, outcome))
      bookPrice == IF n.bookSide = "bid" THEN 99 ELSE 1
      totalCost == n.costPerShare * shares
      row == [userId |-> userId, side |-> side, outcome |-> outcome,
              bookSide |-> n.bookSide, orderType |-> "market_fok",
              price |-> bookPrice, stopPrice |-> NoPrice, shares |-> shares,
              costPerShare |-> n.costPerShare, status |-> "open", createdAt |-> t]
  IN Then(orderDeduct(st, userId, totalCost), LAMBDA d :
       IF d.err # Ok THEN [st |-> st, err |-> d.err]
       ELSE Then(insertOrder(d.st, row), LAMBDA st2 :
         Then(matchOrder(st2, LastOrder(st2)), LAMBDA m :
           IF m.filledShares < shares
             \* ROLLBACK: the ledger is restored, the book keeps what matchOrder did
             THEN [st |-> [st EXCEPT !.ent = m.st.ent, !.bids = m.st.bids,
                                      !.asks = m.st.asks],
                   err |-> Err("FOK fill failed unexpectedly")]
             ELSE Then(sendAccepted(m.st, userId, LastOrder(st2).id),
                       LAMBDA st3 :
                         [st |-> IF m.nfills > 0 THEN checkStopOrders(st3) ELSE st3,
                          err |-> Ok]))))

placeMarketFOK(st, userId, side, outcome, shares, t) ==
  LET e == fokCheck(st, userId, side, outcome, shares)
  IN IF e # Ok THEN [st |-> st, err |-> e]
     ELSE fokCommit(st, userId, side, outcome, shares, t)

StopEntry(id, userId, bookSide, price, stopPrice, remainingShares, costPerShare) ==
  [id |-> id, userId |-> userId, bookSide |-> bookSide, price |-> price,
   stopPrice |-> stopPrice, remainingShares |-> remainingShares,
   costPerShare |-> costPerShare]

\* placeStopLimitOrder up to its stop check: the order is inserted as 'stopped',
\* parked in the stop set and accepted
parkStopOrder(st, userId, side, outcome, shares, stopPrice, price, t) ==
  LET v == validateParams(userId, side, outcome, shares, price)
      n == normalize(side, outcome, price)
      stopNorm == normalize(side, outcome, stopPrice)
      row == [userId |-> userId, side |-> side, outcome |-> outcome,
              bookSide |-> n.bookSide, orderType |-> "stop_limit",
              price |-> n.bookPrice, stopPrice |-> stopNorm.bookPrice,
              shares |-> shares, costPerShare |-> n.costPerShare,
              status |-> "stopped", createdAt |-> t]
  IN IF v # "ok" THEN [st |-> st, err |-> Err(v)]
     ELSE IF stopPrice < minPrice \/ stopPrice > maxPrice
       THEN [st |-> st, err |-> Err("Stop price must be an integer between minPrice and maxPrice")]
     ELSE Then(insertOrder(st, row), LAMBDA st1 :
       Then(sendAccepted(
              [st1 EXCEPT !.stops = Append(@,
                 StopEntry(LastOrder(st1).id, userId, n.bookSide, n.bookPrice,
                           stopNorm.bookPrice, shares, n.costPerShare))],
              userId, LastOrder(st1).id),
            LAMBDA st2 : [st |-> st2, err |-> Ok]))

placeStopLimitOrder(st, userId, side, outcome, shares, stopPrice, price, t) ==
  Then(parkStopOrder(st, userId, side, outcome, shares, stopPrice, price, t),
       LAMBDA r : IF r.err # Ok THEN r
                  ELSE [st |-> checkStopOrders(r.st), err |-> Ok])

\* ------------------------------------------------------------------------
\* TradingEngine.cancelOrder
\* ------------------------------------------------------------------------
\* stops.findIndex(s => s.id === orderId), then splice
removeStop(arr, orderId) ==
  IF \E i \in 1..Len(arr) : arr[i].id = orderId
    THEN SpliceOut(arr, CHOOSE i \in 1..Len(arr) :
                          arr[i].id = orderId /\ \A j \in 1..(i - 1) : arr[j].id # orderId)
    ELSE arr

\* cancelOrder before its transaction: getOrder and the four checks
cancelCheck(st, userId, orderId) ==
  IF ~(orderId \in 1..Len(st.orders)) THEN Err("Order not found")
  ELSE LET order == st.orders[orderId]
       IN IF order.user_id # userId THEN Err("Not your order")
          ELSE IF order.order_type \in {"market_fak", "market_fok"}
            THEN Err("Cannot cancel market orders")
          ELSE IF ~Cancellable(order)
            THEN Err("Cannot cancel order with this status")
          ELSE Ok

\* the transaction of cancelOrder, BEGIN to COMMIT; order is the row getOrder
\* returned, the UPDATE of dbTrading.cancelOrder sees the row as it is now and
\* returns null unless it is still the user's and still cancellable
cancelTx(st, userId, orderId, order) ==
  LET row == st.orders[orderId]
  IN IF ~(row.user_id = userId /\ Cancellable(row))
       THEN [st |-> st, err |-> Err("Cancel failed - order may have been filled"),
             refund |-> 0]
     ELSE LET cancelled == dbCancelOrder(row, userId)
              refund == IF order.status # "stopped"
                          THEN cancelled.remaining_shares * cancelled.cost_per_share
                          ELSE 0
              st1 == [st EXCEPT !.orders[orderId] = cancelled]
              st2 == IF refund > 0 THEN orderCredit(st1, userId, refund) ELSE st1
          IN [st |-> st2, err |-> Ok, refund |-> refund]

\* cancelOrder after COMMIT: the order leaves the book and the stop list and
\* order_cancelled is sent
cancelRemove(st, userId, orderId, order, refund) ==
  sendCancelled([st EXCEPT
                   !.bids = IF order.book_side = "bid"
                              THEN removeFromBook(@, orderId) ELSE @,
                   !.asks = IF order.book_side = "bid"
                              THEN @ ELSE removeFromBook(@, orderId),
                   !.stops = removeStop(@, orderId)],
                userId, orderId, refund, NoReason)

\* cancelOrder from BEGIN on
cancelCommit(st, userId, orderId, order) ==
  LET r == cancelTx(st, userId, orderId, order)
  IN IF r.err # Ok THEN r
     ELSE [st |-> cancelRemove(r.st, userId, orderId, order, r.refund),
           err |-> Ok, refund |-> r.refund]

cancelOrder(st, userId, orderId) ==
  LET e == cancelCheck(st, userId, orderId)
  IN IF e # Ok THEN [st |-> st, err |-> e]
     ELSE LET r == cancelCommit(st, userId, orderId, st.orders[orderId])
          IN [st |-> r.st, err |-> r.err]

\* ------------------------------------------------------------------------
\* TradingEngine.settleRound
\* ------------------------------------------------------------------------
\* cancelAllRoundOrders followed by the refund loop, lines 874-888
RECURSIVE cancelAndRefund(_, _)
cancelAndRefund(st, k) ==
  IF k > Len(st.orders) THEN st
  ELSE LET row == st.orders[k]
           st1 == IF Cancellable(row)
                    THEN [st EXCEPT !.orders[k].status = "cancelled"] ELSE st
           refund == row.remaining_shares * row.cost_per_share
       IN Then(IF Cancellable(row) /\ row.status # "stopped"
                    /\ row.remaining_shares > 0 /\ refund > 0
                 THEN orderCredit(st1, row.user_id, refund) ELSE st1,
               LAMBDA st2 : cancelAndRefund(st2, k + 1))

\* the payout loop, lines 894-918: one dollar per winning share
payWinners(st, pos, winningOutcome) ==
  [st EXCEPT !.balance = [u \in DOMAIN st.balance |->
     LET winningShares == IF u \in DOMAIN pos
                            THEN (IF winningOutcome = "up" THEN pos[u].yesShares
                                                           ELSE pos[u].noShares)
                            ELSE 0
     IN IF winningShares > 0 THEN st.balance[u] + 100 * winningShares
                             ELSE st.balance[u]]]

settleRound(st, pos, winningOutcome) ==
  LET st1 == cancelAndRefund(st, 1)
  IN IF ~("getRoundPositions" \in dbTradingExports)
       \* dbTrading.getRoundPositions is undefined: the call throws, the catch
       \* block rolls the transaction back and the book is not cleared
       THEN [st |-> st, err |-> Err("dbTrading.getRoundPositions is not a function")]
       ELSE [st |-> [payWinners(st1, pos, winningOutcome) EXCEPT
                       !.bids = <<>>, !.asks = <<>>, !.stops = <<>>],
             err |-> Ok]

\* ------------------------------------------------------------------------
\* Spec and SpecRound: the engine, one request at a time
\* ------------------------------------------------------------------------
\* NOW() at the n-th insert into orders: the clock never goes back, and two
\* inserts may fall into the same millisecond (inserts 2 and 3, 4 and 5, ...)
NowAt(n) == 1 + (n \div 2)

Cur ==
  [balance |-> balance, orders |-> orders, trades |-> trades, bids |-> bids,
   asks |-> asks, ent |-> ent, stops |-> stops, deducted |-> deducted,
   refunded |-> refunded, accepted |-> accepted, notices |-> notices]

Set(st, err) ==
  /\ balance' = st.balance
  /\ orders' = st.orders
  /\ trades' = st.trades
  /\ bids' = st.bids
  /\ asks' = st.asks
  /\ ent' = st.ent
  /\ stops' = st.stops
  /\ deducted' = st.deducted
  /\ refunded' = st.refunded
  /\ accepted' = st.accepted
  /\ notices' = st.notices
  /\ lastError' = err
  /\ clock' = NowAt(Len(st.orders) + 1)

EngineInit(ph) ==
  /\ balance = InitBalance
  /\ orders = <<>>
  /\ trades = <<>>
  /\ positions = << >>
  /\ bids = <<>>
  /\ asks = <<>>
  /\ ent = << >>
  /\ stops = <<>>
  /\ phase = ph
  /\ clock = 1
  /\ deducted = 0
  /\ refunded = 0
  /\ lastError = Ok
  /\ accepted = {}
  /\ notices = {}
  /\ provisions = <<>>

ConcIdle == procs = << >> /\ locks = {}

\* BaseExchange constructor: no socket, no timer, reconnectAttempts 0; failed
\* counts the reconnects that failed since the socket was last open, stopped
\* tells that disconnect() was called
NewExchange ==
  [ws |-> "none", connected |-> FALSE, reconnectAttempts |-> 0, timers |-> <<>>,
   price |-> NoPrice, maxReconnectReached |-> 0, reconnecting |-> FALSE,
   failed |-> 0, stopped |-> FALSE]

\* the price of an aggregate event without sources: null
NoSources == <<0, 0>>

\* no aggregate event was emitted yet
NoAggregate ==
  [emitted |-> FALSE, price |-> NoSources, sourceCount |-> 0, timestamp |-> 0]

\* the connections and the users of SpecAuth
Conns == {1, 2, 3}
AuthUsers == {1, 2}

\* no client has connected
WsIdle ==
  /\ readyState = [c \in Conns |-> "new"]
  /\ authenticatedClients = [c \in Conns |-> 0]
  /\ userSockets = [u \in AuthUsers |-> {}]
  /\ lookups = {}

\* a number missing from a message (undefined); numbers are written <<num, den>>
Undefined == <<0, 0>>

\* no place_order message was handled yet
NoRequest == [auth |-> 0, slug |-> "", orderType |-> "", side |-> "", outcome |-> "",
              shares |-> Undefined, price |-> Undefined, stopPrice |-> Undefined]

\* PriceAggregator constructor: prices = new Map(), nothing emitted
FeedIdle ==
  /\ exchange = NewExchange
  /\ prices = << >>
  /\ aggregate = NoAggregate
  /\ feedNow = 0

LifeIdle ==
  /\ now = 0
  /\ lastPrice = NoPrice
  /\ currentMinuteStart = 0
  /\ markets = << >>
  /\ settleInvoked = {}
  /\ FeedIdle
  /\ inbox = NoRequest
  /\ WsIdle

\* the round is open for trading and nobody provided liquidity
Init == EngineInit("active") /\ ConcIdle /\ LifeIdle

\* the round was just created, five minutes ahead of its start
InitRound == EngineInit("provision") /\ ConcIdle /\ LifeIdle

\* msg.amount is a number num/den, written <<num, den>>
IsInteger(amount) == amount[1] % amount[2] = 0

\* the amounts of the add_liquidity requests: whole dollars, zero, a negative
\* amount and one and a half dollars
AmountGrid == {<<a, 1>> : a \in LiquidityGrid} \cup {<<0, 1>>, <<-1, 1>>, <<3, 2>>}

\* handleAddLiquidity: amount dollars buy amount YES and amount NO shares;
\* [st, positions, provisions, err] when the handler returns
handleAddLiquidity(st, pos, prov, ph, userId, amount) ==
  LET reject(msg) == [st |-> st, positions |-> pos, provisions |-> prov,
                      err |-> Err(msg)]
  IN IF amount[1] = 0 THEN reject("Missing slug or amount")
     ELSE IF ph # "provision" THEN reject("Market not in provision phase")
     ELSE IF ~IsInteger(amount) \/ amount[1] <= 0
       THEN reject("Amount must be a positive whole number")
     ELSE LET dollars == amount[1] \div amount[2]
          IN Then(deductBalance(st, userId, 100 * dollars), LAMBDA d :
               IF d.err # Ok
                 THEN [st |-> st, positions |-> pos, provisions |-> prov, err |-> d.err]
                 ELSE [st |-> d.st,
                       positions |-> upsertPosition(pos, userId, dollars, dollars),
                       provisions |-> Append(prov, [user_id |-> userId,
                                                    amount |-> dollars]),
                       err |-> Ok])

AddLiquidity(u, amount) ==
  /\ \E r \in {handleAddLiquidity(Cur, positions, provisions, phase, u, amount)} :
       /\ balance' = r.st.balance
       /\ positions' = r.positions
       /\ provisions' = r.provisions
       /\ lastError' = r.err
  /\ UNCHANGED <<orders, trades, bids, asks, ent, stops, phase, clock, deducted,
                 refunded, accepted, notices, concVars, lifeVars>>

\* activateMarket: the round opens for trading with an empty book (initRound)
ActivateRound ==
  /\ phase = "provision"
  /\ phase' = "active"
  /\ UNCHANGED <<balance, orders, trades, positions, provisions, bids, asks, ent, stops, clock,
                 deducted, refunded, accepted, notices, lastError, concVars, lifeVars>>

\* the rows of the orders table with one of the order types
NumOfType(types) == Cardinality({i \in 1..Len(orders) : orders[i].order_type \in types})

\* the bounds on the orders of a run
HasBudget(max) == Len(orders) < max
MarketBudget == NumOfType({"market_fak", "market_fok"}) < MaxMarketOrders
StopBudget == NumOfType({"stop_limit"}) < MaxStopOrders

\* handlePlaceOrder refuses an order unless the market's phase is 'active'
PlaceLimit(u, so, n, p) ==
  /\ phase = "active"
  /\ \E r \in {placeLimitOrder(Cur, u, so[1], so[2], n, p, clock)} :
       Set(r.st, r.err)
  /\ UNCHANGED <<positions, provisions, phase, concVars, lifeVars>>

PlaceFAK(u, so, n) ==
  /\ phase = "active"
  /\ MarketBudget
  /\ \E r \in {placeMarketFAK(Cur, u, so[1], so[2], n, clock)} :
       Set(r.st, r.err)
  /\ UNCHANGED <<positions, provisions, phase, concVars, lifeVars>>

PlaceFOK(u, so, n) ==
  /\ phase = "active"
  /\ MarketBudget
  /\ \E r \in {placeMarketFOK(Cur, u, so[1], so[2], n, clock)} :
       Set(r.st, r.err)
  /\ UNCHANGED <<positions, provisions, phase, concVars, lifeVars>>

PlaceStopLimit(u, so, n, sp, p) ==
  /\ phase = "active"
  /\ StopBudget
  /\ \E r \in {placeStopLimitOrder(Cur, u, so[1], so[2], n, sp, p, clock)} :
       Set(r.st, r.err)
  /\ UNCHANGED <<positions, provisions, phase, concVars, lifeVars>>

Cancel(u, id) ==
  /\ id \in 1..Len(orders)
  /\ \E r \in {cancelOrder(Cur, u, id)} :
       Set(r.st, lastError)
  /\ UNCHANGED <<positions, provisions, phase, concVars, lifeVars>>

\* settleMarket closes the round and calls settleRound with the outcome
Settle(outcome) ==
  /\ phase = "active"
  /\ phase' = "closed"
  /\ \E r \in {settleRound(Cur, positions, outcome)} :
       Set(r.st, r.err)
  /\ UNCHANGED <<positions, provisions, concVars, lifeVars>>

Requests(max) ==
  \/ \E u \in Users, so \in SideOutcomes, n \in ShareGrid, p \in PriceGrid :
       HasBudget(max) /\ PlaceLimit(u, so, n, p)
  \/ \E u \in Users, so \in SideOutcomes, n \in MarketShareGrid :
       HasBudget(max) /\ PlaceFAK(u, so, n)
  \/ \E u \in Users, so \in SideOutcomes, n \in MarketShareGrid :
       HasBudget(max) /\ PlaceFOK(u, so, n)
  \/ \E u \in Users, so \in SideOutcomes, n \in StopShareGrid, sp \in StopPriceGrid,
        p \in PriceGrid : HasBudget(max) /\ PlaceStopLimit(u, so, n, sp, p)
  \/ \E u \in Users, id \in 1..max : HasBudget(max) /\ Cancel(u, id)

Next == Requests(MaxOrders)

Spec == Init /\ [][Next]_vars

\* ------------------------------------------------------------------------
\* SpecConc: two placeLimitOrder calls in flight.  The calls run on one
\* thread and give way to each other at every awaited ledger call; a step is
\* the completion of the awaited call together with the code that runs up to
\* the next one.  procs[p] holds the local variables of the call of user p.
\* ------------------------------------------------------------------------
IdleProc ==
  [pc |-> "idle", side |-> "sell", outcome |-> "yes", shares |-> 0, price |-> NoPrice,
   orderId |-> 0, i |-> 1, remainingShares |-> 0, resting |-> 0, fillQty |-> 0,
   nfills |-> 0]

\* Array.prototype.splice(i, 1), which removes nothing past the end
spliceAt(arr, i) == IF i <= Len(arr) THEN SpliceOut(arr, i) ELSE arr

\* the head of the while loop of matchOrder, run until the next awaited call:
\* the local variables with pc the call that is awaited
RECURSIVE loopHead(_, _, _, _)
loopHead(P, inc, opp, E) ==
  LET isBid == inc.book_side = "bid"
  IN IF ~(P.remainingShares > 0 /\ P.i <= Len(opp))
       THEN [P EXCEPT !.pc = "commit"]
     ELSE LET resting == E[opp[P.i]]
          IN IF SameUser(resting.userId, inc.user_id)
               THEN loopHead([P EXCEPT !.i = @ + 1], inc, opp, E)
             ELSE IF ~Crosses(isBid, inc.price, resting.price)
               THEN [P EXCEPT !.pc = "commit"]
             ELSE LET savings == inc.cost_per_share
                                   - takerActualCost(isBid, ExecPrice(resting, inc))
                  IN [P EXCEPT !.resting = resting.id,
                               !.fillQty = Min(P.remainingShares, resting.remainingShares),
                               !.pc = IF savings > 0 THEN "credit" ELSE "trade"]

Opposing(P) == IF orders[P.orderId].book_side = "bid" THEN asks ELSE bids

\* the book holds one bid of the maker, placed before the two calls
ConcBook ==
  /\ \E Maker \in Makers, n \in ShareGrid :
       LET empty == [balance |-> [u \in ConcUsers |-> RichBalance], orders |-> <<>>,
                     trades |-> <<>>, bids |-> <<>>, asks |-> <<>>, ent |-> << >>,
                     stops |-> <<>>, deducted |-> 0, refunded |-> 0,
                     accepted |-> {}, notices |-> {}]
           \* what placeLimitOrder(Maker, buy, yes, n, 60) leaves on an empty book
           norm == normalize("buy", "yes", 60)
           st == restInBook(
                   insertOrder(orderDeduct(empty, Maker, norm.costPerShare * n).st,
                     [userId |-> Maker, side |-> "buy", outcome |-> "yes",
                      bookSide |-> norm.bookSide, orderType |-> "limit",
                      price |-> norm.bookPrice, stopPrice |-> NoPrice, shares |-> n,
                      costPerShare |-> norm.costPerShare, status |-> "open",
                      createdAt |-> 1]),
                   BookEntry(1, Maker, norm.bookPrice, n, norm.costPerShare,
                             norm.bookSide, 1))
       IN /\ balance = st.balance
          /\ orders = st.orders
          /\ trades = st.trades
          /\ bids = st.bids
          /\ asks = st.asks
          /\ ent = st.ent
          /\ stops = st.stops
          /\ deducted = st.deducted
          /\ refunded = st.refunded
          /\ accepted = st.accepted
          /\ notices = st.notices
  /\ positions = << >>
  /\ provisions = <<>>
  /\ phase = "active"
  /\ clock = NowAt(2)
  /\ lastError = Ok
  /\ locks = {}
  /\ LifeIdle

InitConc == ConcBook /\ procs = [p \in Takers |-> IdleProc]

\* validateParams, normalize, pool.connect() and BEGIN
ConcStart(p, so, n, price) ==
  /\ procs[p].pc = "idle"
  /\ validateParams(p, so[1], so[2], n, price) = "ok"
  /\ procs' = [procs EXCEPT ![p] = [@ EXCEPT !.pc = "deduct", !.side = so[1],
                                              !.outcome = so[2], !.shares = n,
                                              !.price = price]]
  /\ UNCHANGED <<engineVars, locks, lifeVars>>

\* deductBalance returned or threw; a throw ends the call with ROLLBACK
ConcDeduct(p) ==
  /\ procs[p].pc = "deduct"
  /\ LET P == procs[p]
         n == normalize(P.side, P.outcome, P.price)
         d == orderDeduct(Cur, p, n.costPerShare * P.shares)
     IN /\ balance' = d.st.balance
        /\ deducted' = d.st.deducted
        /\ lastError' = d.err
        /\ procs' = [procs EXCEPT ![p].pc = IF d.err = Ok THEN "insert" ELSE "done"]
  /\ UNCHANGED <<orders, trades, positions, provisions, bids, asks, ent, stops, phase, clock,
                 refunded, accepted, notices, locks, lifeVars>>

\* insertOrder returned; matchOrder is entered and runs to its first awaited call
ConcInsert(p) ==
  /\ procs[p].pc = "insert"
  /\ LET P == procs[p]
         n == normalize(P.side, P.outcome, P.price)
         st == insertOrder(Cur,
                 [userId |-> p, side |-> P.side, outcome |-> P.outcome,
                  bookSide |-> n.bookSide, orderType |-> "limit", price |-> n.bookPrice,
                  stopPrice |-> NoPrice, shares |-> P.shares,
                  costPerShare |-> n.costPerShare, status |-> "open",
                  createdAt |-> clock])
         order == LastOrder(st)
         opp == IF n.bookSide = "bid" THEN asks ELSE bids
     IN /\ orders' = st.orders
        /\ clock' = NowAt(Len(st.orders) + 1)
        /\ procs' = [procs EXCEPT ![p] =
               loopHead([P EXCEPT !.orderId = order.id, !.i = 1,
                                  !.remainingShares = order.remaining_shares],
                        order, opp, ent)]
  /\ UNCHANGED <<balance, trades, positions, provisions, bids, asks, ent, stops, phase, deducted,
                 refunded, accepted, notices, lastError, locks, lifeVars>>

\* creditBalance returned: the price improvement of this fill is refunded
ConcCredit(p) ==
  /\ procs[p].pc = "credit"
  /\ LET P == procs[p]
         inc == orders[P.orderId]
         savings == inc.cost_per_share
                      - takerActualCost(inc.book_side = "bid", ExecPrice(ent[P.resting], inc))
         st == orderCredit(Cur, p, savings * P.fillQty)
     IN /\ balance' = st.balance
        /\ refunded' = st.refunded
  /\ procs' = [procs EXCEPT ![p].pc = "trade"]
  /\ UNCHANGED <<orders, trades, positions, provisions, bids, asks, ent, stops, phase,
                 clock, deducted, lastError, accepted, notices, locks, lifeVars>>

\* insertTrade returned
ConcTrade(p) ==
  /\ procs[p].pc = "trade"
  /\ LET P == procs[p]
         inc == orders[P.orderId]
         isBid == inc.book_side = "bid"
         resting == ent[P.resting]
     IN trades' = Append(trades,
          [bid_order_id |-> IF isBid THEN inc.id ELSE resting.id,
           ask_order_id |-> IF isBid THEN resting.id ELSE inc.id,
           yes_user_id |-> IF isBid THEN inc.user_id ELSE resting.userId,
           no_user_id |-> IF isBid THEN resting.userId ELSE inc.user_id,
           price |-> ExecPrice(resting, inc), shares |-> P.fillQty,
           maker |-> resting.id, taker |-> inc.id])
  /\ procs' = [procs EXCEPT ![p].pc = "updResting"]
  /\ UNCHANGED <<balance, orders, positions, provisions, bids, asks, ent, stops, phase, clock,
                 deducted, refunded, accepted, notices, lastError, locks, lifeVars>>

\* updateOrderFill(resting.id) returned: the UPDATE waited for the row lock,
\* which the transaction keeps until it ends; then resting.remainingShares -= fillQty
ConcUpdResting(p) ==
  /\ procs[p].pc = "updResting"
  /\ LET P == procs[p]
     IN /\ \A q \in Takers \ {p} : ~(<<P.resting, q>> \in locks)
        /\ locks' = locks \cup {<<P.resting, p>>}
        /\ orders' = [orders EXCEPT ![P.resting] = updateOrderFill(@, P.fillQty)]
        /\ ent' = [ent EXCEPT ![P.resting].remainingShares = @ - P.fillQty]
  /\ procs' = [procs EXCEPT ![p].pc = "updIncoming"]
  /\ UNCHANGED <<balance, trades, positions, provisions, bids, asks, stops, phase, clock, deducted,
                 refunded, accepted, notices, lastError, lifeVars>>

\* updateOrderFill(incomingOrder.id) returned; remainingShares -= fillQty
ConcUpdIncoming(p) ==
  /\ procs[p].pc = "updIncoming"
  /\ LET P == procs[p]
     IN /\ orders' = [orders EXCEPT ![P.orderId] = updateOrderFill(@, P.fillQty)]
        /\ procs' = [procs EXCEPT ![p] = [@ EXCEPT !.pc = "getResting",
                                                    !.remainingShares = @ - P.fillQty,
                                                    !.nfills = @ + 1]]
  /\ UNCHANGED <<balance, trades, positions, provisions, bids, asks, ent, stops, phase, clock,
                 deducted, refunded, accepted, notices, lastError, locks, lifeVars>>

\* getOrder(resting.id) returned: the owner is notified, a resting order with
\* nothing left is spliced out at index i, and the loop runs to its next await
ConcGetResting(p) ==
  /\ procs[p].pc = "getResting"
  /\ LET P == procs[p]
         inc == orders[P.orderId]
         isBid == inc.book_side = "bid"
         gone == ent[P.resting].remainingShares <= 0
         opp == IF gone THEN spliceAt(Opposing(P), P.i) ELSE Opposing(P)
     IN /\ asks' = IF isBid THEN opp ELSE asks
        /\ bids' = IF isBid THEN bids ELSE opp
        /\ procs' = [procs EXCEPT ![p] =
               loopHead([P EXCEPT !.i = IF gone THEN @ ELSE @ + 1], inc, opp, ent)]
  /\ UNCHANGED <<balance, orders, trades, positions, provisions, ent, stops, phase, clock, deducted,
                 refunded, accepted, notices, lastError, locks, lifeVars>>

\* COMMIT returned: the row locks are released and the unfilled part rests
ConcCommit(p) ==
  /\ procs[p].pc = "commit"
  /\ LET P == procs[p]
         inc == orders[P.orderId]
         unfilled == P.remainingShares
         st == IF unfilled > 0
                 THEN restInBook(Cur, BookEntry(inc.id, p, inc.price, unfilled,
                                   inc.cost_per_share, inc.book_side, inc.created_at))
                 ELSE Cur
     IN /\ bids' = st.bids
        /\ asks' = st.asks
        /\ ent' = st.ent
  /\ locks' = {l \in locks : l[2] # p}
  /\ procs' = [procs EXCEPT ![p].pc = "getFinal"]
  /\ UNCHANGED <<balance, orders, trades, positions, provisions, stops, phase, clock, deducted,
                 refunded, accepted, notices, lastError, lifeVars>>

\* getOrder(order.id) returned: the client is told; checkStopOrders follows a fill
ConcGetFinal(p) ==
  /\ procs[p].pc = "getFinal"
  /\ procs' = [procs EXCEPT ![p].pc = IF procs[p].nfills > 0 THEN "stops" ELSE "done"]
  /\ accepted' = sendAccepted(Cur, p, procs[p].orderId).accepted
  /\ UNCHANGED <<balance, orders, trades, positions, provisions, bids, asks, ent, stops,
                 phase, clock, deducted, refunded, notices, lastError, locks, lifeVars>>

\* checkStopOrders returned
ConcStops(p) ==
  /\ procs[p].pc = "stops"
  /\ LET st == checkStopOrders(Cur)
     IN /\ balance' = st.balance
        /\ orders' = st.orders
        /\ trades' = st.trades
        /\ bids' = st.bids
        /\ asks' = st.asks
        /\ ent' = st.ent
        /\ stops' = st.stops
        /\ deducted' = st.deducted
        /\ refunded' = st.refunded
        /\ accepted' = st.accepted
        /\ notices' = st.notices
  /\ procs' = [procs EXCEPT ![p].pc = "done"]
  /\ UNCHANGED <<positions, provisions, phase, clock, lastError, locks, lifeVars>>

NextConc ==
  \E p \in Takers :
    \/ \E so \in ConcSideOutcomes, n \in ShareGrid, price \in PriceGrid :
         ConcStart(p, so, n, price)
    \/ ConcDeduct(p)
    \/ ConcInsert(p)
    \/ ConcCredit(p)
    \/ ConcTrade(p)
    \/ ConcUpdResting(p)
    \/ ConcUpdIncoming(p)
    \/ ConcGetResting(p)
    \/ ConcCommit(p)
    \/ ConcGetFinal(p)
    \/ ConcStops(p)

SpecConc == InitConc /\ [][NextConc]_vars

\* ------------------------------------------------------------------------
\* Properties of concurrent placements (SpecConc)
\* ------------------------------------------------------------------------
\* C6: no order is filled for more than its shares and no remainingShares, in
\* the ledger or in the book, is negative, whatever the interleaving
NoOverfill ==
  /\ \A k \in 1..Len(orders) :
       /\ orders[k].filled_shares <= orders[k].shares
       /\ orders[k].remaining_shares >= 0
  /\ \A id \in DOMAIN ent : ent[id].remainingShares >= 0

\* ------------------------------------------------------------------------
\* SpecLife: PriceWebSocketServer, the lifecycle of the markets.  Time is
\* counted in minutes: every instant the controller compares is a minute
\* start or Date.now() against one.
\* ------------------------------------------------------------------------
\* the methods the TradingEngine class defines
tradingEngineMethods ==
  {"normalize", "initRound", "getBook", "insertBid", "insertAsk", "removeFromBook",
   "getOrderBook", "validateParams", "matchOrder", "placeMarketFAK", "placeMarketFOK",
   "placeLimitOrder", "placeStopLimitOrder", "cancelOrder", "checkStopOrders",
   "settleRound", "getUserOrders", "getOrderDetail", "formatOrder"}

getMarketPhase(minuteStart, clk) ==
  IF clk < minuteStart THEN "provision"
  ELSE IF clk < minuteStart + 1 THEN "active"
  ELSE "closed"

createMarket(mk, minuteStart, clk) ==
  IF minuteStart \in DOMAIN mk THEN mk
  ELSE (minuteStart :> [phase |-> getMarketPhase(minuteStart, clk),
                        priceToBeat |-> NoPrice, finalPrice |-> NoPrice,
                        outcome |-> "none"]) @@ mk

RECURSIVE createFuture(_, _, _, _)
createFuture(mk, minuteStart, clk, i) ==
  IF i > FutureMarkets THEN mk
  ELSE createFuture(createMarket(mk, minuteStart + i, clk), minuteStart, clk, i + 1)

\* market.phase and market.priceToBeat are assigned before the engine is called
activateMarket(mk, minuteStart, priceToBeat) ==
  IF minuteStart \in DOMAIN mk
    THEN [mk EXCEPT ![minuteStart].phase = "active",
                    ![minuteStart].priceToBeat = priceToBeat]
    ELSE mk

\* [markets, invoked, threw] with a trading engine attached: the market is
\* closed before the engine is called; tradingEngine.setPhase is called first,
\* which throws when the engine has no such method, and settleRound after it
settleMarket(mk, invoked, minuteStart, price) ==
  IF ~(minuteStart \in DOMAIN mk) \/ mk[minuteStart].phase = "closed"
       \/ mk[minuteStart].priceToBeat = NoPrice
    THEN [markets |-> mk, invoked |-> invoked, threw |-> FALSE]
    ELSE LET closed == [mk EXCEPT
                          ![minuteStart].phase = "closed",
                          ![minuteStart].finalPrice = price,
                          ![minuteStart].outcome =
                             IF price >= mk[minuteStart].priceToBeat THEN "up" ELSE "down"]
         IN IF "setPhase" \in tradingEngineMethods
              THEN [markets |-> closed, invoked |-> invoked \cup {minuteStart},
                    threw |-> FALSE]
              ELSE [markets |-> closed, invoked |-> invoked, threw |-> TRUE]

cleanupOldMarkets(mk, clk) ==
  LET keep == {m \in DOMAIN mk :
                 ~(mk[m].phase = "closed" /\ m + 1 < clk - CleanupAgeMinutes)}
  IN [m \in keep |-> mk[m]]

\* initMarkets: the current minute's market and the next FutureMarkets ones
initMarkets(clk) == createFuture(createMarket(<< >>, clk, clk), clk, clk, 1)

\* checkMinuteBoundary: [currentMinuteStart, markets, invoked] when it returns
checkMinuteBoundary(cms, mk, invoked, price, clk) ==
  LET minuteStartMs == clk
      realign == minuteStartMs > cms
      cms1 == IF realign THEN minuteStartMs ELSE cms
      mk1 == IF realign
               THEN createFuture(createMarket(mk, minuteStartMs, clk), minuteStartMs, clk, 1)
               ELSE mk
  IN IF cms1 \in DOMAIN mk1 /\ mk1[cms1].phase # "active" /\ mk1[cms1].phase # "closed"
       THEN [currentMinuteStart |-> cms1, markets |-> activateMarket(mk1, cms1, price),
             invoked |-> invoked]
     ELSE IF minuteStartMs > cms1
       \* "New minute detected": settle, activate, create, clean up
       THEN LET T == minuteStartMs
                s1 == settleMarket(mk1, invoked, cms1, price)
                mk2 == IF T \in DOMAIN s1.markets
                         THEN activateMarket(s1.markets, T, price) ELSE s1.markets
                mk3 == createMarket(mk2, T + ProvisionLeadMinutes, clk)
            IN IF s1.threw
                 THEN [currentMinuteStart |-> T, markets |-> s1.markets,
                       invoked |-> s1.invoked]
                 ELSE [currentMinuteStart |-> T, markets |-> cleanupOldMarkets(mk3, clk),
                       invoked |-> s1.invoked]
     ELSE [currentMinuteStart |-> cms1, markets |-> mk1, invoked |-> invoked]

\* the server was started in minute 0 and no price has arrived
LifeInit ==
  /\ now = 0
  /\ lastPrice = NoPrice
  /\ currentMinuteStart = 0
  /\ markets = initMarkets(0)
  /\ settleInvoked = {}
  /\ FeedIdle
  /\ inbox = NoRequest
  /\ WsIdle

InitLife == EngineInit("active") /\ ConcIdle /\ LifeInit

\* the wall clock passes into a later minute
AdvanceClock(d) ==
  /\ now + d <= MaxMinute
  /\ now' = now + d
  /\ UNCHANGED <<lastPrice, currentMinuteStart, markets, settleInvoked, engineVars,
                 concVars, feedVars, inbox, wsVars>>

\* the aggregator's 'price' event: this.lastPrice = data.price
PriceUpdate(p) ==
  /\ lastPrice' = p
  /\ UNCHANGED <<now, currentMinuteStart, markets, settleInvoked, engineVars, concVars,
                 feedVars, inbox, wsVars>>

\* the 500 ms timer calls checkMinuteBoundary
Tick ==
  /\ IF lastPrice = NoPrice
       THEN UNCHANGED <<currentMinuteStart, markets, settleInvoked>>
       ELSE \E r \in {checkMinuteBoundary(currentMinuteStart, markets, settleInvoked,
                                           lastPrice, now)} :
               /\ currentMinuteStart' = r.currentMinuteStart
               /\ markets' = r.markets
               /\ settleInvoked' = r.invoked
  /\ UNCHANGED <<now, lastPrice, engineVars, concVars, feedVars, inbox, wsVars>>

NextLife ==
  \/ \E d \in 1..MaxSkip : AdvanceClock(d)
  \/ \E p \in PriceLevels : PriceUpdate(p)
  \/ Tick

SpecLife == InitLife /\ [][NextLife]_vars

\* ------------------------------------------------------------------------
\* Properties of the lifecycle (SpecLife)
\* ------------------------------------------------------------------------
\* C9: at most one market of the markets map is in phase active
SingleActive ==
  Cardinality({m \in DOMAIN markets : markets[m].phase = "active"}) <= 1

\* C10: a tick that moves currentMinuteStart to a later minute, away from a
\* market that was activated with a price to beat, leaves that market settled:
\* closed, finalPrice the latest price, outcome up iff finalPrice >= priceToBeat,
\* and settleRound called for it
SettledOnBoundary ==
  [][(/\ currentMinuteStart' > currentMinuteStart
      /\ currentMinuteStart \in DOMAIN markets
      /\ markets[currentMinuteStart].priceToBeat # NoPrice)
     => (/\ currentMinuteStart \in DOMAIN markets'
         /\ markets'[currentMinuteStart].phase = "closed"
         /\ markets'[currentMinuteStart].finalPrice = lastPrice
         /\ markets'[currentMinuteStart].outcome =
               (IF lastPrice >= markets[currentMinuteStart].priceToBeat
                  THEN "up" ELSE "down")
         /\ currentMinuteStart \in settleInvoked')]_vars

\* C11: at a minute boundary T the finalPrice recorded for the round that ends
\* at T equals the priceToBeat assigned to the round that starts at T: whenever
\* the market of minute T has its price to beat and the market of minute T - 1
\* had been given one too, the finalPrice of T - 1 is the priceToBeat of T
BoundaryContinuity ==
  \A T \in DOMAIN markets :
    (/\ T - 1 \in DOMAIN markets
     /\ markets[T].priceToBeat # NoPrice
     /\ markets[T - 1].priceToBeat # NoPrice)
    => markets[T - 1].finalPrice = markets[T].priceToBeat

\* C12: priceToBeat is assigned exactly once, when the market first becomes
\* active: an active or closed market has a priceToBeat, a market in provision
\* has none, and a priceToBeat that is set never changes afterwards
PriceToBeatByPhase ==
  \A m \in DOMAIN markets :
    /\ markets[m].phase \in {"active", "closed"} => markets[m].priceToBeat # NoPrice
    /\ markets[m].phase = "provision" => markets[m].priceToBeat = NoPrice

PriceToBeatStable ==
  \A m \in DOMAIN markets :
    markets[m].priceToBeat # NoPrice
    => (m \in DOMAIN markets' => markets'[m].priceToBeat = markets[m].priceToBeat)

PriceToBeatOnce == [](PriceToBeatByPhase) /\ [][PriceToBeatStable]_vars

\* ------------------------------------------------------------------------
\* Properties of the engine (Spec)
\* ------------------------------------------------------------------------
\* what the two counterparties of the trades pay: execPrice per share on the
\* bid side and 100 - execPrice per share on the ask side
TradeDollars ==
  LET f[k \in 0..Len(trades)] ==
        IF k = 0 THEN 0
        ELSE f[k - 1] + trades[k].price * trades[k].shares
                      + (100 - trades[k].price) * trades[k].shares
  IN f[Len(trades)]

\* what the open and partially filled orders still reserve
ReservedDollars ==
  LET f[k \in 0..Len(orders)] ==
        IF k = 0 THEN 0
        ELSE f[k - 1] + (IF orders[k].status \in {"open", "partially_filled"}
                           THEN orders[k].remaining_shares * orders[k].cost_per_share
                           ELSE 0)
  IN f[Len(orders)]

\* C1: the dollars deducted for the orders of the round equal what the
\* counterparties of its trades pay, plus the refunds (cancel, FAK residual,
\* price improvement), plus what the open orders still reserve
Conservation == deducted = TradeDollars + refunded + ReservedDollars

StatusConsistent(row) ==
  /\ (row.status = "filled") <=>
       (row.remaining_shares = 0 /\ row.filled_shares = row.shares)
  /\ (row.status = "partially_filled") =>
       (0 < row.filled_shares /\ row.filled_shares < row.shares)

\* C2: every order row has filled_shares + remaining_shares = shares,
\* 0 <= filled_shares <= shares, remaining_shares >= 0 and a status that
\* agrees with the counts
OrderCounts ==
  \A i \in 1..Len(orders) :
    /\ orders[i].filled_shares + orders[i].remaining_shares = orders[i].shares
    /\ 0 <= orders[i].filled_shares
    /\ orders[i].filled_shares <= orders[i].shares
    /\ orders[i].remaining_shares >= 0
    /\ StatusConsistent(orders[i])

\* C4: no trade has the same user on its two sides
NoSelfTrade ==
  \A k \in 1..Len(trades) : trades[k].yes_user_id # trades[k].no_user_id

\* a trade was made by a taker who, at that time, had an order of their own
\* resting on the opposing side at a price the taker crossed
SelfTradeAvoided ==
  \E k \in 1..Len(trades), j \in 1..Len(orders) :
    LET taker == orders[trades[k].taker]
    IN /\ j < taker.id
       /\ orders[j].user_id = taker.user_id
       /\ orders[j].book_side # taker.book_side
       /\ orders[j].order_type = "limit"
       /\ orders[j].status = "open"
       /\ Crosses(taker.book_side = "bid", taker.price, orders[j].price)

\* C5: every trade executes at the price of its maker, and the price of the
\* bid order >= the execution price >= the price of the ask order
ExecAtMakerPrice ==
  \A k \in 1..Len(trades) :
    /\ trades[k].price = orders[trades[k].maker].price
    /\ orders[trades[k].bid_order_id].price >= trades[k].price
    /\ trades[k].price >= orders[trades[k].ask_order_id].price

\* a triggered stop-limit order traded, as the taker, at a price that is the
\* maker's and not its own
StopTakerImproved ==
  \E k \in 1..Len(trades) :
    /\ orders[trades[k].taker].order_type = "stop_limit"
    /\ orders[trades[k].taker].price # trades[k].price

\* C7: no resting order is filled while a matchable resting order of another
\* user with a better price, or the same price and an earlier createdAt, has
\* shares left
PriceTimePriority == \A k \in 1..Len(trades) : ~trades[k].jumped

\* a resting order was filled while a matchable order it has priority over
\* waited in the book
PriorityDecided ==
  \E k \in 1..Len(trades) : trades[k].behind > 0

\* bids: price descending, createdAt ascending within a price
BidsSorted ==
  \A i \in 1..(Len(bids) - 1) :
    \/ ent[bids[i]].price > ent[bids[i + 1]].price
    \/ /\ ent[bids[i]].price = ent[bids[i + 1]].price
       /\ ent[bids[i]].createdAt <= ent[bids[i + 1]].createdAt

\* asks: price ascending, createdAt ascending within a price
AsksSorted ==
  \A i \in 1..(Len(asks) - 1) :
    \/ ent[asks[i]].price < ent[asks[i + 1]].price
    \/ /\ ent[asks[i]].price = ent[asks[i + 1]].price
       /\ ent[asks[i]].createdAt <= ent[asks[i + 1]].createdAt

\* C8: the book is sorted, bids by price descending and asks by price
\* ascending, each by createdAt ascending within a price, and every entry
\* carries the created_at of its order row
BookSorted ==
  /\ BidsSorted
  /\ AsksSorted
  /\ \A i \in 1..Len(bids) : ent[bids[i]].createdAt = orders[bids[i]].created_at
  /\ \A i \in 1..Len(asks) : ent[asks[i]].createdAt = orders[asks[i]].created_at

\* a triggered stop-limit order rests in the book behind a limit order
TriggeredStopRests ==
  \/ \E i \in 2..Len(bids) : orders[bids[i]].order_type = "stop_limit"
  \/ \E i \in 2..Len(asks) : orders[asks[i]].order_type = "stop_limit"

\* user u may cancel order id: it is u's limit or stop-limit order and its
\* status is open, partially_filled or stopped
MayCancel(u, id) ==
  /\ id \in 1..Len(orders)
  /\ orders[id].user_id = u
  /\ orders[id].order_type \in {"limit", "stop_limit"}
  /\ Cancellable(orders[id])

\* what was reserved for order id and not yet spent: nothing while the order
\* is still stopped
ReservedFor(id) ==
  IF orders[id].status = "stopped" THEN 0
  ELSE orders[id].remaining_shares * orders[id].cost_per_share

InBook(st, id) ==
  \/ \E i \in 1..Len(st.bids) : st.bids[i] = id
  \/ \E i \in 1..Len(st.asks) : st.asks[i] = id
  \/ \E i \in 1..Len(st.stops) : st.stops[i].id = id

NextRound ==
  \/ \E u \in Users, a \in AmountGrid : AddLiquidity(u, a)
  \/ ActivateRound
  \/ Requests(MaxRoundOrders)
  \/ \E outcome \in {"up", "down"} : Settle(outcome)

SpecRound == InitRound /\ [][NextRound]_vars

\* ------------------------------------------------------------------------
\* Properties of the round (SpecRound)
\* ------------------------------------------------------------------------
\* the result r of a placement by user u: it succeeded, a row of u was added
\* to the orders table and order_accepted for that row was sent to u; or it
\* failed and the ledger, the book, the stops and the messages sent are as
\* they were
AtomicResult(r, u) ==
  IF r.err = Ok
    THEN /\ Len(r.st.orders) = Len(orders) + 1
         /\ LastOrder(r.st).user_id = u
         /\ \A k \in 1..Len(orders) : r.st.orders[k].id = orders[k].id
         /\ r.st.accepted = accepted \cup {<<u, LastOrder(r.st).id>>}
    ELSE r.st = Cur

\* C13: placement is atomic for every order type: in every state the engine
\* reaches, a place_order request of any of the four types either succeeds,
\* persists its order row and emits order_accepted to the placer, or fails and
\* leaves no trace: no order row, no balance change, no trade, no change to
\* other orders and no order_accepted
PlacementAtomic ==
  /\ \A u \in Users, so \in SideOutcomes, n \in ShareGrid, p \in PriceGrid :
       \A r \in {placeLimitOrder(Cur, u, so[1], so[2], n, p, clock)} :
         AtomicResult(r, u)
  /\ \A u \in Users, so \in SideOutcomes, n \in MarketShareGrid :
       /\ \A r \in {placeMarketFAK(Cur, u, so[1], so[2], n, clock)} :
            AtomicResult(r, u)
       /\ \A r \in {placeMarketFOK(Cur, u, so[1], so[2], n, clock)} :
            AtomicResult(r, u)
  /\ \A u \in Users, so \in SideOutcomes, n \in StopShareGrid, sp \in StopPriceGrid,
        p \in PriceGrid :
       \A r \in {placeStopLimitOrder(Cur, u, so[1], so[2], n, sp, p, clock)} :
         AtomicResult(r, u)
  /\ accepted = {<<orders[k].user_id, orders[k].id>> : k \in 1..Len(orders)}

\* a placement was refused for its balance while the round was trading and held
\* an accepted order, which is still there
PlacementRefused ==
  /\ phase = "active"
  /\ lastError.msg = "Insufficient balance"
  /\ Len(orders) > 0
  /\ accepted # {}

\* the sum of f[u] over the users
SumOverUsers(f) ==
  LET S[U \in SUBSET Users] ==
        IF U = {} THEN 0
        ELSE LET x == CHOOSE x \in U : TRUE IN f[x] + S[U \ {x}]
  IN S[Users]

\* the winning shares of user u's position
WinningShares(u, outcome) ==
  IF u \in DOMAIN positions
    THEN (IF outcome = "up" THEN positions[u].yesShares ELSE positions[u].noShares)
    ELSE 0

\* the step in which settleMarket closes the round and settleRound runs
SettleStep == phase = "active" /\ phase' = "closed"

\* C14: after settleRound every order that was open, partially filled or
\* stopped is cancelled, the orders that were not stopped are refunded
\* remaining * costPerShare and the stopped ones nothing, and the book and the
\* stop set of the round are gone
SettlementCancels ==
  [][SettleStep =>
       /\ \A k \in 1..Len(orders) :
            Cancellable(orders[k]) => orders'[k].status = "cancelled"
       /\ refunded' = refunded + ReservedDollars
       /\ bids' = <<>> /\ asks' = <<>> /\ stops' = <<>>]_vars

\* C15: settlement pays every position one dollar per winning share and
\* nothing for the losing side: for the outcome settled, every user's balance
\* grows by at least 100 cents per winning share, and what the balances grow
\* by beyond the refunds of cancelled orders is 100 cents per winning share of
\* all positions
SettlementPays ==
  [][SettleStep =>
       \E outcome \in {"up", "down"} :
         /\ \A u \in Users :
              balance'[u] >= balance[u] + 100 * WinningShares(u, outcome)
         /\ SumOverUsers([u \in Users |-> balance'[u] - balance[u]])
              = (refunded' - refunded)
                + 100 * SumOverUsers([u \in Users |-> WinningShares(u, outcome)])]_vars

\* the dollars of liquidity user u provided to the round
LiquidityOf(u) ==
  LET f[k \in 0..Len(provisions)] ==
        IF k = 0 THEN 0
        ELSE f[k - 1] + (IF provisions[k].user_id = u THEN provisions[k].amount ELSE 0)
  IN f[Len(provisions)]

\* the shares of the trades in which user u is the YES user, or the NO user
TradedShares(u, role) ==
  LET f[k \in 0..Len(trades)] ==
        IF k = 0 THEN 0
        ELSE f[k - 1] + (IF (IF role = "yes" THEN trades[k].yes_user_id
                                              ELSE trades[k].no_user_id) = u
                           THEN trades[k].shares ELSE 0)
  IN f[Len(trades)]

\* the position row of user u, or zeros when there is none (getPosition)
PositionOf(u) ==
  IF u \in DOMAIN positions THEN positions[u] ELSE [yesShares |-> 0, noShares |-> 0]

\* C16: every fill credits positions: each user's yesShares is the liquidity
\* the user provided plus the shares of the trades in which the user is the
\* YES user, and noShares the same with the trades in which the user is the
\* NO user
PositionsFromFills ==
  \A u \in Users :
    /\ PositionOf(u).yesShares = LiquidityOf(u) + TradedShares(u, "yes")
    /\ PositionOf(u).noShares = LiquidityOf(u) + TradedShares(u, "no")

\* the position row of user u in the table pos, or zeros
PositionIn(pos, u) ==
  IF u \in DOMAIN pos THEN pos[u] ELSE [yesShares |-> 0, noShares |-> 0]

\* the result r of add_liquidity of amount by user u in the present state
LiquidityResult(r, u, amount) ==
  IF phase = "provision" /\ IsInteger(amount) /\ amount[1] > 0
       /\ balance[u] >= 100 * (amount[1] \div amount[2])
    THEN LET A == amount[1] \div amount[2]
         IN /\ r.err = Ok
            /\ r.st.balance = [balance EXCEPT ![u] = @ - 100 * A]
            /\ \A v \in Users :
                 /\ PositionIn(r.positions, v).yesShares
                      = PositionOf(v).yesShares + (IF v = u THEN A ELSE 0)
                 /\ PositionIn(r.positions, v).noShares
                      = PositionOf(v).noShares + (IF v = u THEN A ELSE 0)
            /\ r.provisions = Append(provisions, [user_id |-> u, amount |-> A])
    ELSE /\ r.err # Ok
         /\ r.st = Cur
         /\ r.positions = positions
         /\ r.provisions = provisions

\* C17: add_liquidity of a positive whole amount A on a market in provision
\* takes exactly A dollars from the user's balance and adds exactly A yesShares
\* and A noShares to the user's position; in any other phase, with too small a
\* balance, or with an amount that is not a positive integer it is rejected and
\* balance, positions and the provision log stay as they are
LiquidityExact ==
  \A u \in Users, amount \in AmountGrid :
    \A r \in {handleAddLiquidity(Cur, positions, provisions, phase, u, amount)} :
      LiquidityResult(r, u, amount)

\* liquidity was provided and a later add_liquidity was rejected because the
\* market had left provision
LiquidityRejectedLate ==
  /\ provisions # <<>>
  /\ lastError.msg = "Market not in provision phase"

\* the amounts the requests of the model ask the ledger to deduct
DeductAmounts ==
  {normalize(so[1], so[2], p).costPerShare * n :
     so \in SideOutcomes, p \in PriceGrid, n \in ShareGrid}
  \cup {100 * a : a \in LiquidityGrid}

\* C3: no balance is negative; a deduction larger than the balance throws
\* 'Insufficient balance' and leaves the balance as it was, and so does the
\* limit placement that asks for it
BalanceSafe ==
  /\ \A u \in Users : balance[u] >= 0
  /\ \A u \in Users, a \in DeductAmounts :
       a > balance[u] =>
         LET d == deductBalance(Cur, u, a)
         IN d.err.msg = "Insufficient balance" /\ d.st.balance = balance
  /\ \A u \in Users, so \in SideOutcomes, p \in PriceGrid, n \in ShareGrid :
       normalize(so[1], so[2], p).costPerShare * n > balance[u] =>
         LET r == placeLimitOrder(Cur, u, so[1], so[2], n, p, clock)
         IN r.err.msg = "Insufficient balance" /\ r.st = Cur

\* a request was refused for its balance after the user had paid for liquidity
\* or for an order
DeductionRefused ==
  /\ lastError.msg = "Insufficient balance"
  /\ \E u \in Users : balance[u] < InitBalance[u]

\* ------------------------------------------------------------------------
\* SpecCancel: cancel requests in flight.  cancelOrder reads the order
\* (getOrder), gives way, and then runs its transaction; placements and the
\* settlement of the round are handled in between.  procs[c] holds the local
\* variables of cancel request c.
\* ------------------------------------------------------------------------
IdleCancel ==
  [pc |-> "idle", userId |-> 0, orderId |-> 0, status |-> "none", book_side |-> "bid",
   err |-> Ok, refund |-> 0]

InitCancel ==
  /\ EngineInit("active")
  /\ procs = [c \in Cancellers |-> IdleCancel]
  /\ locks = {}
  /\ LifeIdle

\* getOrder returned and the checks ran: the request is refused, or goes on to
\* its transaction with the row it read
CancelGet(c, u, id) ==
  /\ procs[c].pc = "idle"
  \* the requests are numbered in the order in which they arrive
  /\ \A b \in Cancellers : b < c => procs[b].pc # "idle"
  /\ \E e \in {cancelCheck(Cur, u, id)} :
       procs' = [procs EXCEPT ![c] =
         IF e # Ok
           THEN [@ EXCEPT !.pc = "done", !.userId = u, !.orderId = id, !.err = e]
           ELSE [@ EXCEPT !.pc = "begin", !.userId = u, !.orderId = id,
                          !.status = orders[id].status,
                          !.book_side = orders[id].book_side]]
  /\ UNCHANGED <<engineVars, locks, lifeVars>>

\* BEGIN, dbTrading.cancelOrder, creditBalance, COMMIT and the removal from the
\* book and the stop list
CancelEnd(c) ==
  /\ procs[c].pc = "begin"
  /\ \E r \in {cancelCommit(Cur, procs[c].userId, procs[c].orderId,
                             [status |-> procs[c].status,
                              book_side |-> procs[c].book_side])} :
       /\ Set(r.st, lastError)
       /\ procs' = [procs EXCEPT ![c] = [@ EXCEPT !.pc = "done", !.err = r.err,
                                                   !.refund = r.refund]]
  /\ UNCHANGED <<positions, provisions, phase, locks, lifeVars>>

NextCancel ==
  \/ \E u \in Users, so \in CancelSideOutcomes, n \in ShareGrid, p \in CancelPriceGrid :
       HasBudget(MaxCancelOrders) /\ PlaceLimit(u, so, n, p)
  \/ \E u \in Users, so \in CancelSideOutcomes, n \in MarketShareGrid :
       HasBudget(MaxCancelOrders) /\ PlaceFAK(u, so, n)
  \/ \E u \in Users, so \in CancelSideOutcomes, n \in StopShareGrid,
        sp \in StopPriceGrid, p \in CancelPriceGrid :
       HasBudget(MaxCancelOrders) /\ PlaceStopLimit(u, so, n, sp, p)
  \/ \E c \in Cancellers, u \in Users, id \in 1..MaxCancelOrders : CancelGet(c, u, id)
  \/ \E c \in Cancellers : CancelEnd(c)
  \/ \E outcome \in {"up", "down"} : Settle(outcome)

SpecCancel == InitCancel /\ [][NextCancel]_vars

\* ------------------------------------------------------------------------
\* Market-FOK requests in flight: the pre-check runs when the request arrives,
\* the transaction after `await dbTrading.pool.connect()`, and other requests
\* are served in between (SpecFok)
\* ------------------------------------------------------------------------
IdleFok ==
  [pc |-> "idle", userId |-> 0, side |-> "buy", outcome |-> "yes", shares |-> 0,
   err |-> Ok]

InitFok ==
  /\ EngineInit("active")
  /\ procs = [p \in FokTakers |-> IdleFok]
  /\ locks = {}
  /\ LifeIdle

\* lines 424-447
FokCheck(p, u, so, n) ==
  /\ procs[p].pc = "idle"
  /\ \A b \in FokTakers : b < p => procs[b].pc # "idle"
  /\ HasBudget(MaxFokOrders)
  /\ \E e \in {fokCheck(Cur, u, so[1], so[2], n)} :
       procs' = [procs EXCEPT ![p] =
                   [pc |-> IF e # Ok THEN "done" ELSE "begin", userId |-> u,
                    side |-> so[1], outcome |-> so[2], shares |-> n, err |-> e]]
  /\ UNCHANGED <<engineVars, locks, lifeVars>>

\* lines 449-493
FokRun(p) ==
  /\ procs[p].pc = "begin"
  /\ \E r \in {fokCommit(Cur, procs[p].userId, procs[p].side, procs[p].outcome,
                          procs[p].shares, clock)} :
       /\ Set(r.st, r.err)
       /\ procs' = [procs EXCEPT ![p] = [@ EXCEPT !.pc = "done", !.err = r.err]]
  /\ UNCHANGED <<positions, provisions, phase, locks, lifeVars>>

NextFok ==
  \/ \E u \in Users, so \in CancelSideOutcomes, n \in FokShareGrid, p \in CancelPriceGrid :
       HasBudget(MaxFokOrders) /\ PlaceLimit(u, so, n, p)
  \/ \E u \in Users, so \in CancelSideOutcomes, n \in FokShareGrid :
       HasBudget(MaxFokOrders) /\ PlaceFAK(u, so, n)
  \/ \E p \in FokTakers, u \in Users, so \in CancelSideOutcomes, n \in FokShareGrid :
       FokCheck(p, u, so, n)
  \/ \E p \in FokTakers : FokRun(p)

SpecFok == InitFok /\ [][NextFok]_vars

\* ------------------------------------------------------------------------
\* Properties of market-FOK requests in flight (SpecFok)
\* ------------------------------------------------------------------------
\* what another user has resting on the side opposing a market order
RestingForOthers(u, side, outcome) ==
  LET n == normalize(side, outcome, marketPrice(side, outcome))
      opp == IF n.bookSide = "bid" THEN asks ELSE bids
      RECURSIVE Sum(_)
      Sum(i) == IF i > Len(opp) THEN 0
                ELSE (IF ent[opp[i]].userId = u THEN 0 ELSE ent[opp[i]].remainingShares)
                     + Sum(i + 1)
  IN Sum(1)

\* the request of p is refused by the pre-check in this step
FokRefused(p) ==
  /\ procs[p].pc = "idle" /\ procs'[p].pc # "idle"
  /\ RestingForOthers(procs'[p].userId, procs'[p].side, procs'[p].outcome)
       < procs'[p].shares

\* the transaction of p ends in this step
FokEnds(p) == procs[p].pc = "begin" /\ procs'[p].pc = "done"

\* C20: a market-FOK request for more shares than other users have resting on
\* the opposing side fails with 'Insufficient liquidity: <available> shares
\* available, need <shares>' and leaves orders, trades, balances and the book
\* as they were; any other request is filled for exactly its full quantity,
\* and if it cannot be, everything it did is rolled back
FokAllOrNothing ==
  [][\A p \in FokTakers :
       /\ FokRefused(p) =>
            /\ procs'[p].pc = "done"
            /\ procs'[p].err =
                 [msg |-> "Insufficient liquidity",
                  available |-> RestingForOthers(procs'[p].userId, procs'[p].side,
                                                 procs'[p].outcome),
                  need |-> procs'[p].shares]
            /\ UNCHANGED <<balance, orders, trades, bids, asks, ent, stops>>
       /\ FokEnds(p) =>
            IF procs'[p].err = Ok
              THEN /\ Len(orders') = Len(orders) + 1
                   /\ orders'[Len(orders')].order_type = "market_fok"
                   /\ orders'[Len(orders')].status = "filled"
                   /\ orders'[Len(orders')].filled_shares = procs[p].shares
              ELSE UNCHANGED <<balance, orders, trades, bids, asks, ent, stops>>]_vars

\* ------------------------------------------------------------------------
\* Properties of cancel requests in flight (SpecCancel)
\* ------------------------------------------------------------------------
\* cancel request c completes in this step without an error
CancelSucceeds(c) ==
  procs[c].pc = "begin" /\ procs'[c].pc = "done" /\ procs'[c].err = Ok

\* C18: a cancel of a limit or stop-limit order that goes through sets the
\* order's status to cancelled, takes it out of the book and the stop set, and
\* refunds exactly remaining * costPerShare when balance had been reserved for
\* the order, and nothing when the order was still stopped
CancelRefundsReserved ==
  [][\A c \in Cancellers :
       CancelSucceeds(c) =>
         /\ orders'[procs[c].orderId].status = "cancelled"
         /\ ~InBook([bids |-> bids', asks |-> asks', stops |-> stops'], procs[c].orderId)
         /\ balance' = [balance EXCEPT ![procs[c].userId] =
                                         @ + ReservedFor(procs[c].orderId)]]_vars

\* the cancel requests for order id that went through
Cancelled(id) ==
  {c \in Cancellers : procs[c].pc = "done" /\ procs[c].err = Ok /\ procs[c].orderId = id}

\* a cancel request that the present state would refuse changes nothing, and
\* no order was cancelled, and refunded, by more than one request
RefusedOrOnce ==
  /\ \A u \in Users, id \in 1..MaxCancelOrders :
       ~MayCancel(u, id) =>
         \A r \in {cancelOrder(Cur, u, id)} : r.err # Ok /\ r.st = Cur
  /\ \A id \in 1..MaxCancelOrders : Cardinality(Cancelled(id)) <= 1
  /\ \A c \in Cancellers : procs[c].err # Ok => procs[c].refund = 0

\* a cancel request that ends with an error leaves the ledger, the book and
\* the stop set as they were
RefusedChangesNothing ==
  \A c \in Cancellers :
    (procs[c].pc # "done" /\ procs'[c].pc = "done" /\ procs'[c].err # Ok)
      => UNCHANGED engineVars

\* C19: a cancel request for an order that is filled or cancelled, is a market
\* order or belongs to somebody else returns an error and changes no state, so
\* that over every interleaving of cancel requests, placements and settlement
\* the reserved balance of an order is refunded at most once
CancelAtMostOnce == [](RefusedOrOnce) /\ [][RefusedChangesNothing]_vars

\* two cancel requests for the same order were in flight together: one went
\* through and refunded the order, the other found the order cancelled when
\* its UPDATE ran
SecondCancelRefused ==
  \E c \in Cancellers, b \in Cancellers :
    /\ procs[c].pc = "done" /\ procs[c].err = Ok /\ procs[c].refund > 0
    /\ procs[b].pc = "done" /\ procs[b].orderId = procs[c].orderId
    /\ procs[b].err.msg = "Cancel failed - order may have been filled"

\* ------------------------------------------------------------------------
\* Properties of market orders (Spec)
\* ------------------------------------------------------------------------
IsMarket(row) == row.order_type \in {"market_fak", "market_fok"}

\* no market order of the ledger is open, in the book or in the stop set
MarketNotResting ==
  \A k \in 1..Len(orders) :
    IsMarket(orders[k]) =>
      /\ orders[k].status \in {"filled", "partially_filled", "cancelled"}
      /\ ~InBook(Cur, k)
      /\ orders[k].order_type = "market_fok" => orders[k].status = "filled"

\* what the trades k..Len(tr) of taker order id gave back as price improvement
RECURSIVE ImprovementOf(_, _, _, _)
ImprovementOf(tr, id, row, k) ==
  IF k > Len(tr) THEN 0
  ELSE (IF tr[k].taker = id
          THEN LET actual == IF row.book_side = "bid" THEN tr[k].price
                             ELSE 100 - tr[k].price
               IN IF row.cost_per_share > actual
                    THEN (row.cost_per_share - actual) * tr[k].shares ELSE 0
          ELSE 0)
       + ImprovementOf(tr, id, row, k + 1)

\* this step is a market-FAK placement that was accepted, with no stop order
\* parked that its fills could trigger
FakPlaced ==
  /\ Len(orders') = Len(orders) + 1
  /\ orders'[Len(orders')].order_type = "market_fak"
  /\ stops = <<>>

\* the balance of the placer after the step: the reservation for the shares,
\* less the price improvement of the fills, less the refund for the residual
FakResidualRefunded ==
  FakPlaced =>
    LET row == orders'[Len(orders')]
        unfilled == row.shares - row.filled_shares
    IN /\ row.remaining_shares = 0
       /\ balance'[row.user_id] =
            balance[row.user_id] - row.cost_per_share * row.shares
              + ImprovementOf(trades', row.id, row, Len(trades) + 1)
              + row.cost_per_share * unfilled
       /\ \A u \in Users \ {row.user_id} : balance'[u] = balance[u]

\* C21: a market order never rests: once the placement of a market-FAK or
\* market-FOK order is complete the order is not in the book and its status is
\* not open, and a FAK placement refunds exactly unfilled * costPerShare of
\* its reservation
MarketNeverRests == [](MarketNotResting) /\ [][FakResidualRefunded]_vars

\* a market-FAK order was filled in part and its residual killed and refunded
FakResidualKilled ==
  \E k \in 1..Len(orders) :
    /\ orders[k].order_type = "market_fak"
    /\ orders[k].status = "partially_filled"
    /\ orders[k].filled_shares > 0 /\ orders[k].filled_shares < orders[k].shares
    /\ refunded >= orders[k].cost_per_share * (orders[k].shares - orders[k].filled_shares)
    /\ refunded > 0

\* ------------------------------------------------------------------------
\* Properties of stop-limit orders (Spec)
\* ------------------------------------------------------------------------
\* the top of the book between two requests
TopBid == IF Len(bids) > 0 THEN ent[bids[1]].price ELSE NoPrice
TopAsk == IF Len(asks) > 0 THEN ent[asks[1]].price ELSE NoPrice

\* C22: a parked stop-limit order triggers when the top of the book reaches
\* its stop (bestAsk <= stopPrice for a bid stop, bestBid >= stopPrice for an
\* ask stop), also when another user's order coming to rest moves it there:
\* between two requests the stop set holds no order whose trigger condition holds
NoTriggerableStop ==
  \A i \in 1..Len(stops) : ~shouldTrigger(stops[i], TopBid, TopAsk)

\* the order_cancelled message of a trigger whose deduction failed
TriggerNotice(stop) ==
  [userId |-> stop.userId, orderId |-> stop.id, refund |-> 0,
   reason |-> "Insufficient balance at trigger"]

\* what checkStopOrders does with a parked stop once it has taken it out of
\* the stop set
TriggerResult(stop) ==
  triggerOne([Cur EXCEPT !.stops = removeStop(@, stop.id)], stop)

\* a parked stop has nothing reserved; triggering it reserves shares *
\* costPerShare and opens it, or, if the owner cannot pay, cancels it, tells
\* the owner and changes nothing else
TriggerReservesOrCancels ==
  \A i \in 1..Len(stops) :
    LET stop == stops[i]
        row == orders[stop.id]
        cost == row.shares * row.cost_per_share
    IN /\ row.status = "stopped" /\ row.filled_shares = 0
       /\ \A r \in {TriggerResult(stop)} :
            IF balance[stop.userId] >= cost
              THEN /\ r.orders[stop.id].status \in {"open", "partially_filled", "filled"}
                   /\ r.deducted = deducted + cost
                   /\ r.notices = notices
              ELSE /\ r.orders = [orders EXCEPT ![stop.id].status = "cancelled"]
                   /\ r.balance = balance
                   /\ r.deducted = deducted
                   /\ r.trades = trades
                   /\ r.bids = bids /\ r.asks = asks /\ r.ent = ent
                   /\ ~InBook(r, stop.id)
                   /\ r.notices = notices \cup {TriggerNotice(stop)}

\* an order cancelled at its trigger stays cancelled, out of the book and
\* without a trade
CancelledAtTriggerStays ==
  \A n \in notices :
    n.reason = "Insufficient balance at trigger" =>
      /\ orders[n.orderId].status = "cancelled"
      /\ orders[n.orderId].filled_shares = 0
      /\ orders[n.orderId].user_id = n.userId
      /\ ~InBook(Cur, n.orderId)
      /\ \A k \in 1..Len(trades) :
           trades[k].bid_order_id # n.orderId /\ trades[k].ask_order_id # n.orderId

\* a stop-limit placement that leaves its order parked, and that triggers no
\* stop parked before it, moves no balance
StopPlacedFree ==
  (/\ Len(orders') = Len(orders) + 1
   /\ orders'[Len(orders')].order_type = "stop_limit"
   /\ orders'[Len(orders')].status = "stopped"
   /\ SubSeq(orders', 1, Len(orders)) = orders)
    => balance' = balance /\ deducted' = deducted

\* C23: a stop-limit order reserves nothing when it is placed; at its trigger
\* it reserves shares * costPerShare and becomes open; if that deduction fails
\* the order ends cancelled, the owner's balance is unchanged, the order never
\* enters the book and is never matched, and the owner is sent order_cancelled
\* with reason 'Insufficient balance at trigger'
StopReservesAtTrigger ==
  [](TriggerReservesOrCancels /\ CancelledAtTriggerStays) /\ [][StopPlacedFree]_vars

\* a trigger found its owner unable to pay: the order is cancelled and the
\* owner was told
StopCancelledAtTrigger ==
  \E n \in notices :
    /\ n.reason = "Insufficient balance at trigger"
    /\ orders[n.orderId].order_type = "stop_limit"
    /\ orders[n.orderId].status = "cancelled"
    /\ balance[n.userId] < orders[n.orderId].shares * orders[n.orderId].cost_per_share

\* ------------------------------------------------------------------------
\* SpecAdapter: one exchange adapter (BaseExchange and the connect() of its
\* WebSocket subclasses), its socket and its reconnect timers
\* ------------------------------------------------------------------------
\* config.reconnect
maxAttempts == 10
initialDelay == 1000
maxDelay == 30000

\* the prices an adapter reports
AdapterPrices == {100, 200}

\* resetReconnect that leaves the counter alone
resetReconnect_Kept(e) == e

\* resetReconnect()
resetReconnect(e) == [e EXCEPT !.reconnectAttempts = 0]

\* scheduleReconnect(): at the cap emit maxReconnectReached and return, else
\* setTimeout(() => this.connect(), delay) and count the attempt
scheduleReconnect(e) ==
  IF e.reconnectAttempts >= maxAttempts
    THEN [e EXCEPT !.maxReconnectReached = @ + 1]
    ELSE LET delay == Min(initialDelay * 2 ^ e.reconnectAttempts, maxDelay)
         IN [e EXCEPT !.reconnectAttempts = @ + 1, !.timers = Append(@, delay)]

\* connect(): this.ws = new WebSocket(url)
connect(e, again) == [e EXCEPT !.ws = "connecting", !.reconnecting = again]

InitAdapter == EngineInit("active") /\ ConcIdle /\ LifeIdle

\* aggregator.start() calls exchange.connect()
AdapterStart ==
  /\ exchange.ws = "none"
  /\ exchange' = connect(exchange, FALSE)
  /\ UNCHANGED <<engineVars, concVars, now, lastPrice, currentMinuteStart, markets,
                 settleInvoked, prices, aggregate, feedNow, inbox, wsVars>>

\* ws.on('open'): connected, resetReconnect()
WsOpen ==
  /\ exchange.ws = "connecting"
  /\ exchange' = [resetReconnect(exchange) EXCEPT !.ws = "open", !.connected = TRUE,
                                                    !.failed = 0]
  /\ UNCHANGED <<engineVars, concVars, now, lastPrice, currentMinuteStart, markets,
                 settleInvoked, prices, aggregate, feedNow, inbox, wsVars>>

\* ws.on('message'): updatePrice(price)
WsMessage(p) ==
  /\ exchange.ws = "open"
  /\ exchange' = [exchange EXCEPT !.price = p]
  /\ UNCHANGED <<engineVars, concVars, now, lastPrice, currentMinuteStart, markets,
                 settleInvoked, prices, aggregate, feedNow, inbox, wsVars>>

\* ws.on('error'): emit('error'), this.ws.close()
WsError ==
  /\ exchange.ws \in {"connecting", "open"}
  /\ exchange' = [exchange EXCEPT !.ws = "closing",
                                   !.failed = IF exchange.ws = "connecting"
                                                  /\ exchange.reconnecting
                                                THEN @ + 1 ELSE @]
  /\ UNCHANGED <<engineVars, concVars, now, lastPrice, currentMinuteStart, markets,
                 settleInvoked, prices, aggregate, feedNow, inbox, wsVars>>

\* ws.on('close'): connected = false, scheduleReconnect()
WsClose ==
  /\ exchange.ws \in {"connecting", "open", "closing"}
  /\ exchange' = [scheduleReconnect(exchange) EXCEPT
                    !.ws = "closed", !.connected = FALSE,
                    !.failed = IF exchange.ws = "connecting" /\ exchange.reconnecting
                                 THEN @ + 1 ELSE @]
  /\ UNCHANGED <<engineVars, concVars, now, lastPrice, currentMinuteStart, markets,
                 settleInvoked, prices, aggregate, feedNow, inbox, wsVars>>

\* a reconnect timer fires: this.connect()
TimerFires ==
  /\ exchange.timers # <<>>
  /\ exchange' = connect([exchange EXCEPT !.timers = Tail(@)], TRUE)
  /\ UNCHANGED <<engineVars, concVars, now, lastPrice, currentMinuteStart, markets,
                 settleInvoked, prices, aggregate, feedNow, inbox, wsVars>>

NextAdapter ==
  \/ AdapterStart
  \/ WsOpen
  \/ \E p \in AdapterPrices : WsMessage(p)
  \/ WsError
  \/ WsClose
  \/ TimerFires

SpecAdapter == InitAdapter /\ [][NextAdapter]_vars

\* ------------------------------------------------------------------------
\* SpecFeed: the aggregator, the 'price' events of its exchanges and its
\* aggregation timer.  Time is in milliseconds, weights are in hundredths,
\* and a price weightedSum / totalWeight is the pair <<weightedSum, totalWeight>>.
\* ------------------------------------------------------------------------
\* config.aggregateInterval, config.staleThreshold
aggregateInterval == 1000
staleThreshold == 10000

\* the run ends after this many milliseconds
MaxFeedTime == 12000

\* the sources that report: one with a configured weight, one without
Sources == {"binance", "cryptocom"}

\* config.weights
weights ==
  [x \in {"binance", "bybit_usdt", "bybit_usdc", "coinbase", "kraken_usdt",
          "kraken_usdc", "kucoin", "gemini"} |->
     CASE x = "binance" -> 25
       [] x \in {"bybit_usdt", "coinbase"} -> 15
       [] x = "kraken_usdc" -> 5
       [] OTHER -> 10]

\* config.weights[exchangeName] || 0.05
defaultWeight == 5
weightOf(x) == IF x \in DOMAIN weights /\ weights[x] # 0 THEN weights[x] ELSE defaultWeight

\* a loop that skips the samples older than the staleness threshold
included_Fresh(data, t) == t - data.timestamp <= staleThreshold

\* the loop of calculateAggregate takes every entry of this.prices
included(data, t) == TRUE

\* the loop of calculateAggregate over the entries xs of this.prices
RECURSIVE aggregateLoop(_, _, _)
aggregateLoop(pr, xs, t) ==
  IF xs = {} THEN [weightedSum |-> 0, totalWeight |-> 0, sourceCount |-> 0]
  ELSE LET x == CHOOSE y \in xs : TRUE
           rest == aggregateLoop(pr, xs \ {x}, t)
       IN IF included(pr[x], t)
            THEN [weightedSum |-> rest.weightedSum + pr[x].price * weightOf(x),
                  totalWeight |-> rest.totalWeight + weightOf(x),
                  sourceCount |-> rest.sourceCount + 1]
            ELSE rest

\* calculateAggregate(): the aggregate event emitted at time t
calculateAggregate(pr, t) ==
  LET r == aggregateLoop(pr, DOMAIN pr, t)
  IN IF r.totalWeight = 0
       THEN [emitted |-> TRUE, price |-> NoSources, sourceCount |-> 0, timestamp |-> t]
       ELSE [emitted |-> TRUE, price |-> <<r.weightedSum, r.totalWeight>>,
             sourceCount |-> r.sourceCount, timestamp |-> t]

InitFeed == EngineInit("active") /\ ConcIdle /\ LifeIdle

\* exchange.on('price'): this.prices.set(data.exchange, data)
PriceEvent(x, p) ==
  /\ prices' = [y \in DOMAIN prices \cup {x} |->
                  IF y = x THEN [price |-> p, timestamp |-> feedNow] ELSE prices[y]]
  /\ UNCHANGED <<engineVars, concVars, now, lastPrice, currentMinuteStart, markets,
                 settleInvoked, exchange, aggregate, feedNow, inbox, wsVars>>

\* the aggregation timer fires
AggregateTick ==
  /\ feedNow + aggregateInterval <= MaxFeedTime
  /\ feedNow' = feedNow + aggregateInterval
  /\ aggregate' = calculateAggregate(prices, feedNow + aggregateInterval)
  /\ UNCHANGED <<engineVars, concVars, now, lastPrice, currentMinuteStart, markets,
                 settleInvoked, exchange, prices, inbox, wsVars>>

NextFeed ==
  \/ \E x \in Sources, p \in AdapterPrices : PriceEvent(x, p)
  \/ AggregateTick

SpecFeed == InitFeed /\ [][NextFeed]_vars

\* ------------------------------------------------------------------------
\* Properties of the adapter's reconnection (SpecAdapter)
\* ------------------------------------------------------------------------
\* the delay of the reconnect scheduled after k attempts
BackoffDelay(k) == IF initialDelay * 2 ^ k < maxDelay THEN initialDelay * 2 ^ k ELSE maxDelay

\* at most one reconnect is pending, and only while the socket is closed; at
\* the cap the adapter is inert and has emitted maxReconnectReached once
ReconnectBounded ==
  /\ exchange.reconnectAttempts \in 0..maxAttempts
  /\ Len(exchange.timers) <= 1
  /\ exchange.timers # <<>> => exchange.ws = "closed"
  /\ exchange.maxReconnectReached \in {0, 1}
  /\ exchange.maxReconnectReached = 1 <=>
       (exchange.failed = maxAttempts /\ exchange.ws = "closed" /\ exchange.timers = <<>>)
  /\ exchange.failed <= maxAttempts

\* the socket closes in this step
TransportFails == exchange.ws # "closed" /\ exchange'.ws = "closed"

\* a close schedules one reconnect with the backoff delay, or at the cap none;
\* an open resets the counter
ReconnectStep ==
  /\ TransportFails =>
       IF exchange'.failed < maxAttempts
         THEN /\ exchange'.timers = <<BackoffDelay(exchange.reconnectAttempts)>>
              /\ exchange'.reconnectAttempts = exchange.reconnectAttempts + 1
              /\ exchange'.maxReconnectReached = 0
         ELSE /\ exchange'.timers = <<>>
              /\ exchange'.maxReconnectReached = 1
  /\ (exchange.ws = "connecting" /\ exchange'.ws = "open") =>
       exchange'.reconnectAttempts = 0

RECURSIVE ReportedSum(_, _)
ReportedSum(xs, withPrice) ==
  IF xs = {} THEN 0
  ELSE LET x == CHOOSE y \in xs : TRUE
       IN (IF x \in DOMAIN prices
             THEN (IF withPrice THEN prices[x].price ELSE 1) * weightOf(x)
             ELSE 0)
          + ReportedSum(xs \ {x}, withPrice)

\* the aggregation timer fires in this step
Publishes == feedNow' # feedNow

\* a source that has reported stays in the map with its newest sample; a tick
\* publishes null if no source has reported, and otherwise the weighted mean
\* of the newest samples of all of them
PublishStep ==
  /\ DOMAIN prices \subseteq DOMAIN prices'
  /\ Publishes =>
       /\ aggregate'.emitted /\ aggregate'.timestamp = feedNow'
       /\ aggregate'.price = NoSources <=> DOMAIN prices = {}
       /\ DOMAIN prices # {} =>
            /\ aggregate'.price = <<ReportedSum(Sources, TRUE), ReportedSum(Sources, FALSE)>>
            /\ aggregate'.price[2] > 0
            /\ aggregate'.sourceCount = Cardinality(DOMAIN prices)

Restart ==
  /\ bids' = <<>>
  /\ asks' = <<>>
  /\ ent' = << >>
  /\ stops' = <<>>
  /\ UNCHANGED <<balance, orders, trades, positions, phase, clock, deducted, refunded,
                 lastError, accepted, notices, provisions, concVars, lifeVars>>

NextRestart ==
  \/ Requests(MaxRestartOrders)
  \/ Restart

SpecRestart == Init /\ [][NextRestart]_vars

\* ------------------------------------------------------------------------
\* Properties of a restart (SpecRestart)
\* ------------------------------------------------------------------------
\* the process is restarted in this step: the ledger is as it was, the
\* engine's memory is not
Restarted ==
  /\ orders' = orders /\ trades' = trades /\ balance' = balance
  /\ <<bids', asks', stops'>> # <<bids, asks, stops>>

\* C26: after a restart the engine's book of a round that is not closed holds
\* exactly the orders that are open or partially_filled in the store, and its
\* stop set exactly the stopped orders, with their original createdAt
RestartRecoversBook ==
  [][Restarted =>
       /\ {bids'[i] : i \in 1..Len(bids')} \cup {asks'[i] : i \in 1..Len(asks')}
            = {k \in 1..Len(orders) : orders[k].status \in {"open", "partially_filled"}}
       /\ {stops'[i].id : i \in 1..Len(stops')}
            = {k \in 1..Len(orders) : orders[k].status = "stopped"}
       /\ \A i \in 1..Len(bids') : ent'[bids'[i]].createdAt = orders[bids'[i]].created_at
       /\ \A i \in 1..Len(asks') : ent'[asks'[i]].createdAt = orders[asks'[i]].created_at]_vars

\* ------------------------------------------------------------------------
\* Properties of initialisation (SpecLife)
\* ------------------------------------------------------------------------
\* C27: after initialisation the markets map holds the current minute's market
\* and the next five, all in phase provision and without a priceToBeat; no
\* market is active until a tick with a reference price activates one, and so
\* gives it its priceToBeat
InitialMarketsProvision ==
  /\ (now = 0 /\ lastPrice = NoPrice) => DOMAIN markets = 0..FutureMarkets
  /\ (\A m \in DOMAIN markets : markets[m].priceToBeat = NoPrice)
       => \A m \in DOMAIN markets : markets[m].phase = "provision"

\* ------------------------------------------------------------------------
\* SpecPlace: place_order messages as they arrive on a connection
\* ------------------------------------------------------------------------
MaxPlaceOrders == 2

\* the slug of the engine's round
RoundSlug == "round"

\* this.authenticatedClients.get(ws) of a connection that never authenticated
NoUser == 0

OrderTypes == {"market_fak", "market_fok", "limit", "stop_limit"}

\* Number.isInteger(x): false for a fraction and for undefined
IsWhole(x) == x[2] # 0 /\ x[1] % x[2] = 0

\* the integer a whole number is
Whole(x) == IF x[2] = 0 THEN 0 ELSE x[1] \div x[2]

\* a validation that lets every message through
validateMessage_Ok(side, outcome, shares, price) == "ok"

\* validateParams on the numbers of the message, before any conversion
validateMessage(side, outcome, shares, price) ==
  IF ~(side \in {"buy", "sell"}) THEN "Invalid side"
  ELSE IF ~(outcome \in {"yes", "no"}) THEN "Invalid outcome"
  ELSE IF ~IsWhole(shares) \/ shares[1] <= 0 THEN "Shares must be a positive integer"
  ELSE IF Whole(shares) > maxSharesPerOrder THEN "Max shares per order"
  ELSE IF price # Undefined
          /\ (~IsWhole(price) \/ Whole(price) < minPrice \/ Whole(price) > maxPrice)
    THEN "Price must be an integer between minPrice and maxPrice"
  ELSE "ok"

\* handlePlaceOrder: [st, err]; err # Ok is the order_rejected answer
handlePlaceOrder(st, ph, msg, t) ==
  LET reject(e) == [st |-> st, err |-> Err(e)]
  IN IF msg.auth = NoUser THEN reject("Not authenticated")
     ELSE IF msg.slug # RoundSlug THEN reject("Market not found")
     ELSE IF ph # "active" THEN reject("Market not in trading phase")
     ELSE IF ~(msg.orderType \in OrderTypes) THEN reject("Invalid orderType")
     ELSE LET \* the market orders are called without price and stopPrice
              price == IF msg.orderType \in {"limit", "stop_limit"}
                         THEN msg.price ELSE Undefined
              v == validateMessage(msg.side, msg.outcome, msg.shares, price)
          IN IF v # "ok" THEN reject(v)
             ELSE IF msg.orderType = "market_fak"
               THEN placeMarketFAK(st, msg.auth, msg.side, msg.outcome,
                                   Whole(msg.shares), t)
             ELSE IF msg.orderType = "market_fok"
               THEN placeMarketFOK(st, msg.auth, msg.side, msg.outcome,
                                   Whole(msg.shares), t)
             ELSE IF msg.orderType = "limit"
               THEN IF price = Undefined
                      \* the cost is NaN and the conditional UPDATE of the
                      \* balance matches no row
                      THEN reject("Insufficient balance")
                      ELSE placeLimitOrder(st, msg.auth, msg.side, msg.outcome,
                                           Whole(msg.shares), Whole(price), t)
             ELSE IF ~IsWhole(msg.stopPrice) \/ Whole(msg.stopPrice) < minPrice
                     \/ Whole(msg.stopPrice) > maxPrice
               THEN reject("Stop price must be an integer between minPrice and maxPrice")
             ELSE IF price = Undefined
               \* orders.price is INTEGER NOT NULL: the INSERT fails
               THEN reject("invalid order row")
             ELSE placeStopLimitOrder(st, msg.auth, msg.side, msg.outcome,
                                      Whole(msg.shares), Whole(msg.stopPrice),
                                      Whole(price), t)

\* the messages of a run: plain values of every field (a price of 60 cents
\* in both price fields), and values that are missing, fractional, out of
\* range or no member of the enumeration
PlainValues ==
  [auth |-> {1, 2}, slug |-> {RoundSlug}, orderType |-> OrderTypes,
   side |-> {"buy", "sell"}, outcome |-> {"yes"}, shares |-> {<<1, 1>>},
   price |-> {<<60, 1>>}, stopPrice |-> {<<60, 1>>}]

OddValues ==
  [auth |-> {NoUser}, slug |-> {"unknown"}, orderType |-> {"swap"},
   side |-> {"hold"}, outcome |-> {"maybe"},
   shares |-> {Undefined, <<0, 1>>, <<3, 2>>, <<maxSharesPerOrder + 1, 1>>},
   price |-> {Undefined, <<0, 1>>, <<150, 1>>, <<61, 2>>},
   stopPrice |-> {Undefined, <<100, 1>>, <<61, 2>>}]

\* the messages with at most one value that is not plain
PlaceGrid ==
  LET F == DOMAIN PlainValues
      All == [auth : PlainValues.auth \cup OddValues.auth,
              slug : PlainValues.slug \cup OddValues.slug,
              orderType : PlainValues.orderType \cup OddValues.orderType,
              side : PlainValues.side \cup OddValues.side,
              outcome : PlainValues.outcome \cup OddValues.outcome,
              shares : PlainValues.shares \cup OddValues.shares,
              price : PlainValues.price \cup OddValues.price,
              stopPrice : PlainValues.stopPrice \cup OddValues.stopPrice]
  IN {msg \in All : Cardinality({f \in F : msg[f] \in OddValues[f]}) <= 1}

InitPlace == EngineInit("provision") /\ ConcIdle /\ LifeIdle

\* ws.on('message') with type place_order
PlaceOrder(msg) ==
  /\ HasBudget(MaxPlaceOrders)
  /\ \E r \in {handlePlaceOrder(Cur, phase, msg, clock)} :
       Set(r.st, r.err)
  /\ inbox' = msg
  /\ UNCHANGED <<positions, provisions, phase, concVars, now, lastPrice,
                 currentMinuteStart, markets, settleInvoked, feedVars, wsVars>>

NextPlace ==
  \/ \E msg \in PlaceGrid : PlaceOrder(msg)
  \/ ActivateRound
  \/ \E outcome \in {"yes"} : Settle(outcome)

SpecPlace == InitPlace /\ [][NextPlace]_vars

\* a number of the message is an integer of [lo, hi]
WholeIn(x, lo, hi) == IsWhole(x) /\ Whole(x) >= lo /\ Whole(x) <= hi

\* the sender, the round, the enumerations and the shares of a message are valid
ValidEnvelope(msg) ==
  /\ msg.auth # NoUser
  /\ msg.slug = RoundSlug
  /\ msg.orderType \in OrderTypes
  /\ msg.side \in {"buy", "sell"}
  /\ msg.outcome \in {"yes", "no"}
  /\ WholeIn(msg.shares, 1, maxSharesPerOrder)

\* price and stopPrice, when given, are integers of [minPrice, maxPrice]
ValidAsStated(msg) ==
  /\ ValidEnvelope(msg)
  /\ msg.price # Undefined => WholeIn(msg.price, minPrice, maxPrice)
  /\ msg.stopPrice # Undefined => WholeIn(msg.stopPrice, minPrice, maxPrice)

\* the same for the fields the order type reads: price for a limit and a
\* stop-limit order, stopPrice for a stop-limit order
ValidAsRead(msg) ==
  /\ ValidEnvelope(msg)
  /\ (msg.orderType \in {"limit", "stop_limit"} /\ msg.price # Undefined)
       => WholeIn(msg.price, minPrice, maxPrice)
  /\ msg.orderType = "stop_limit" => WholeIn(msg.stopPrice, minPrice, maxPrice)

\* a step of handlePlaceOrder: the phase of the round stays as it is
PlaceStep == phase' = phase

NothingPlaced == UNCHANGED <<balance, orders, trades, positions, bids, asks, ent, stops>>

AcceptedOnlyIfRead ==
  (PlaceStep /\ lastError' = Ok) => (ValidAsRead(inbox') /\ phase = "active")

RejectedIfNotRead ==
  (PlaceStep /\ ~(ValidAsRead(inbox') /\ phase = "active"))
    => (lastError' # Ok /\ NothingPlaced)

\* C28 (as the code has it): an order is accepted only from an authenticated
\* connection, for the round in phase active, with side, outcome and order
\* type of the enumerations, shares an integer in [1, maxSharesPerOrder], and
\* the price fields its order type reads (price of a limit or stop-limit
\* order when given, stopPrice of a stop-limit order) integers in [1, 99];
\* every other place_order message is answered with order_rejected and
\* changes no order, trade, balance, position, book or stop set
PlaceOrderValidated == [][AcceptedOnlyIfRead /\ RejectedIfNotRead]_vars

\* a fractional number of shares was refused while an order was resting
FractionRefused ==
  /\ phase = "active"
  /\ Len(orders) > 0
  /\ inbox.shares = <<3, 2>>
  /\ lastError = Err("Shares must be a positive integer")

\* C28 (as stated): an order is accepted only if price and stopPrice, when
\* given, are integers in [1, 99], whatever the order type
AcceptedOnlyIfStated ==
  [][(PlaceStep /\ lastError' = Ok) => ValidAsStated(inbox')]_vars

\* ------------------------------------------------------------------------
\* The reservation of a market order (Spec)
\* ------------------------------------------------------------------------
\* C30: a market order reserves the worst case: the costPerShare of a
\* market-FAK or market-FOK order is at least the taker's actual cost per share
\* of every fill it received (execPrice on the bid side, 100 - execPrice on the
\* ask side)
MarketReservesWorstCase ==
  \A k \in 1..Len(trades) :
    LET row == orders[trades[k].taker]
    IN IsMarket(row) =>
         row.cost_per_share >= takerActualCost(row.book_side = "bid", trades[k].price)

\* ------------------------------------------------------------------------
\* SpecTerminal: the maker cancels the resting order while placements that
\* match against it are in flight.  procs[c] of the maker holds the local
\* variables of cancelOrder; its transaction commits before the order leaves
\* the in-memory book.
\* ------------------------------------------------------------------------
InitTerminal ==
  ConcBook /\ procs = [p \in ConcUsers |-> IF p \in Makers THEN IdleCancel ELSE IdleProc]

\* BEGIN, dbTrading.cancelOrder, creditBalance and COMMIT returned; the UPDATE
\* waits while a placement's transaction holds the lock of the row
TermCancelTx(c) ==
  /\ procs[c].pc = "begin"
  /\ \A q \in Takers : ~(<<procs[c].orderId, q>> \in locks)
  /\ \E r \in {cancelTx(Cur, procs[c].userId, procs[c].orderId,
                         [status |-> procs[c].status,
                          book_side |-> procs[c].book_side])} :
       /\ Set(r.st, lastError)
       /\ procs' = [procs EXCEPT ![c] =
            [@ EXCEPT !.pc = IF r.err = Ok THEN "remove" ELSE "done",
                      !.err = r.err, !.refund = r.refund]]
  /\ UNCHANGED <<positions, provisions, phase, locks, lifeVars>>

\* removeFromBook, the splice of the stop list and order_cancelled
TermCancelRemove(c) ==
  /\ procs[c].pc = "remove"
  /\ Set(cancelRemove(Cur, procs[c].userId, procs[c].orderId,
                      [status |-> procs[c].status, book_side |-> procs[c].book_side],
                      procs[c].refund), lastError)
  /\ procs' = [procs EXCEPT ![c].pc = "done"]
  /\ UNCHANGED <<positions, provisions, phase, locks, lifeVars>>

NextTerminal ==
  \/ NextConc
  \/ \E c \in Makers, id \in 1..Len(orders) : CancelGet(c, c, id)
  \/ \E c \in Makers : TermCancelTx(c)
  \/ \E c \in Makers : TermCancelRemove(c)

SpecTerminal == InitTerminal /\ [][NextTerminal]_vars

Terminal(row) == row.status \in {"cancelled", "filled"}

\* C29: a cancelled or filled order is terminal: no step changes its status,
\* filledShares or remainingShares, and no step records a trade for it
TerminalStatusStays ==
  [][\A k \in 1..Len(orders) :
       Terminal(orders[k]) =>
         /\ orders'[k] = orders[k]
         /\ \A t \in (Len(trades) + 1)..Len(trades') :
              trades'[t].maker # k /\ trades'[t].taker # k]_vars

\* ------------------------------------------------------------------------
\* The money of a round (SpecRound)
\* ------------------------------------------------------------------------
\* C31: a round is zero-sum: once the round is closed and none of its orders
\* is open, partially filled or stopped, the balances of the users add up to
\* what they added up to before the first liquidity provision or order
RoundZeroSum ==
  (phase = "closed" /\ \A k \in 1..Len(orders) : ~Cancellable(orders[k]))
    => SumOverUsers(balance) = SumOverUsers(InitBalance)

\* ------------------------------------------------------------------------
\* SpecGuard: checkMinuteBoundary call by call.  The 500 ms timer starts a
\* tick while an earlier one may still await createMarket, activateMarket or
\* settleMarket; each of these changes this.markets before its first await.
\* procs[t] holds the local variables of tick t, and locks holds Guard while
\* this._boundaryInProgress is true.
\* ------------------------------------------------------------------------
TickIds == {1, 2}

Guard == "_boundaryInProgress"

\* refused: the tick returned at the guard; threw: its promise was rejected
IdleTick == [pc |-> "idle", m |-> 0, i |-> 0, refused |-> FALSE, threw |-> FALSE]

\* a finally block that leaves the flag as it is
finallyRelease_Kept(l) == l

\* finally { this._boundaryInProgress = false }
finallyRelease(l) == l \ {Guard}

\* the tick leaves checkMinuteBoundary
tickExit(P, cms, mk, inv) ==
  [proc |-> [P EXCEPT !.pc = "idle"], cms |-> cms, markets |-> mk, invoked |-> inv]

\* "New minute detected": settleMarket is called
tickNewMinute(P, cms, mk, inv, price, clk) ==
  IF P.m > cms
    THEN LET s1 == settleMarket(mk, inv, cms, price)
         IN [proc |-> [P EXCEPT !.pc = "settle"], cms |-> P.m, markets |-> s1.markets,
             invoked |-> s1.invoked]
    ELSE tickExit(P, cms, mk, inv)

\* the market of currentMinuteStart is activated unless it is active or closed
tickActivate(P, cms, mk, inv, price, clk) ==
  IF cms \in DOMAIN mk /\ mk[cms].phase # "active" /\ mk[cms].phase # "closed"
    THEN [proc |-> [P EXCEPT !.pc = "activate"], cms |-> cms,
          markets |-> activateMarket(mk, cms, price), invoked |-> inv]
    ELSE tickNewMinute(P, cms, mk, inv, price, clk)

\* the loop over the future markets from index i on, up to its next createMarket
RECURSIVE tickFuture(_, _, _, _, _, _, _)
tickFuture(P, cms, mk, inv, price, clk, i) ==
  IF i > FutureMarkets THEN tickActivate(P, cms, mk, inv, price, clk)
  ELSE IF ~((P.m + i) \in DOMAIN mk)
    THEN [proc |-> [P EXCEPT !.pc = "realign", !.i = i], cms |-> cms,
          markets |-> createMarket(mk, P.m + i, clk), invoked |-> inv]
  ELSE tickFuture(P, cms, mk, inv, price, clk, i + 1)

\* from the guard to the first awaited call
tickEnter(P, cms, mk, inv, price, clk) ==
  LET Q == [P EXCEPT !.m = clk, !.refused = FALSE, !.threw = FALSE]
  IN IF clk > cms
       THEN IF ~(clk \in DOMAIN mk)
              THEN [proc |-> [Q EXCEPT !.pc = "realign", !.i = 0], cms |-> clk,
                    markets |-> createMarket(mk, clk, clk), invoked |-> inv]
              ELSE tickFuture(Q, clk, mk, inv, price, clk, 1)
       ELSE tickActivate(Q, cms, mk, inv, price, clk)

\* the awaited call returned: on to the next awaited call or to the exit
tickResume(P, cms, mk, inv, price, clk) ==
  IF P.pc = "realign" THEN tickFuture(P, cms, mk, inv, price, clk, P.i + 1)
  ELSE IF P.pc = "activate" THEN tickExit(P, cms, mk, inv)
  ELSE IF P.pc = "settle"
    THEN IF P.m \in DOMAIN mk
           THEN [proc |-> [P EXCEPT !.pc = "activateNew"], cms |-> cms,
                 markets |-> activateMarket(mk, P.m, price), invoked |-> inv]
           ELSE [proc |-> [P EXCEPT !.pc = "create"], cms |-> cms,
                 markets |-> createMarket(mk, P.m + ProvisionLeadMinutes, clk),
                 invoked |-> inv]
  ELSE IF P.pc = "activateNew"
    THEN [proc |-> [P EXCEPT !.pc = "create"], cms |-> cms,
          markets |-> createMarket(mk, P.m + ProvisionLeadMinutes, clk),
          invoked |-> inv]
  ELSE tickExit(P, cms, mk, inv)

InitGuard ==
  /\ EngineInit("active")
  /\ procs = [t \in TickIds |-> IdleTick]
  /\ locks = {}
  /\ LifeInit

\* r is where the tick stands now: the flag is released once it has left
TickSet(t, r, held) ==
  /\ procs' = [procs EXCEPT ![t] = r.proc]
  /\ currentMinuteStart' = r.cms
  /\ markets' = IF r.proc.pc = "idle" /\ procs[t].pc = "create"
                  THEN cleanupOldMarkets(r.markets, now) ELSE r.markets
  /\ settleInvoked' = r.invoked
  /\ locks' = IF r.proc.pc = "idle" THEN finallyRelease(held) ELSE held

\* the timer fires: checkMinuteBoundary up to its first awaited call
TickStart(t) ==
  /\ procs[t].pc = "idle"
  /\ IF lastPrice = NoPrice
       THEN UNCHANGED <<procs, locks, currentMinuteStart, markets, settleInvoked>>
     ELSE IF Guard \in locks
       THEN /\ procs' = [procs EXCEPT ![t].refused = TRUE]
            /\ UNCHANGED <<locks, currentMinuteStart, markets, settleInvoked>>
     ELSE \E r \in {tickEnter(procs[t], currentMinuteStart, markets, settleInvoked,
                              lastPrice, now)} :
            TickSet(t, r, locks \cup {Guard})
  /\ UNCHANGED <<now, lastPrice, engineVars, feedVars, inbox, wsVars>>

\* the call tick t awaits returned
TickAwait(t) ==
  /\ procs[t].pc # "idle"
  /\ \E r \in {tickResume(procs[t], currentMinuteStart, markets, settleInvoked,
                          lastPrice, now)} :
       TickSet(t, r, locks)
  /\ UNCHANGED <<now, lastPrice, engineVars, feedVars, inbox, wsVars>>

\* activateMarket or settleMarket threw (tradingEngine.setPhase is not a
\* function): the error leaves checkMinuteBoundary through its finally block
TickThrow(t) ==
  /\ procs[t].pc \in {"activate", "settle", "activateNew"}
  /\ procs' = [procs EXCEPT ![t] = [@ EXCEPT !.pc = "idle", !.threw = TRUE]]
  /\ locks' = finallyRelease(locks)
  /\ UNCHANGED <<currentMinuteStart, markets, settleInvoked, now, lastPrice, engineVars,
                 feedVars, inbox, wsVars>>

NextGuard ==
  \/ \E d \in 1..MaxSkip : AdvanceClock(d)
  \/ \E p \in PriceLevels : PriceUpdate(p)
  \/ \E t \in TickIds : TickStart(t)
  \/ \E t \in TickIds : TickAwait(t)
  \/ \E t \in TickIds : TickThrow(t)

\* an awaited call returns or throws in the end
SpecGuard ==
  InitGuard /\ [][NextGuard]_vars
    /\ WF_vars(\E t \in TickIds : TickAwait(t) \/ TickThrow(t))

Inside(t) == procs[t].pc # "idle"

\* at most one tick is past the guard, and the flag is set exactly while one is
GuardExclusive ==
  /\ \A t, u \in TickIds : (Inside(t) /\ Inside(u)) => t = u
  /\ (Guard \in locks) <=> (\E t \in TickIds : Inside(t))

\* a tick that returned at the guard has not touched the markets
RefusedTickIdle ==
  \A t \in TickIds :
    (procs'[t].refused /\ ~procs[t].refused)
      => UNCHANGED <<currentMinuteStart, markets, settleInvoked, locks>>

\* C34: the boundary check excludes itself: at most one tick is between the
\* guard and the finally block, a tick that starts meanwhile does nothing, the
\* flag is cleared on every way out (completion, the return after an
\* activation, a thrown error), and so the flag is always cleared again
BoundaryGuarded ==
  /\ [](GuardExclusive)
  /\ [][RefusedTickIdle]_vars
  /\ ((Guard \in locks) ~> ~(Guard \in locks))

\* a tick returned at the guard while another one awaits an activation
TickRefused ==
  \E t, u \in TickIds :
    /\ procs[t].pc = "activate"
    /\ procs[u].refused /\ procs[u].pc = "idle"
    /\ Guard \in locks

\* ------------------------------------------------------------------------
\* SpecAuth: the client connections of PriceWebSocketServer, their auth
\* messages and their ends.  authenticatedClients[c] = NoUser stands for a
\* connection without an entry, userSockets[u] = {} for a user without one.
\* ------------------------------------------------------------------------
\* this.clients
clients == {c \in Conns : readyState[c] = "open"}

\* wss.on('connection')
WsConnect(c) ==
  /\ readyState[c] = "new"
  /\ readyState' = [readyState EXCEPT ![c] = "open"]
  /\ UNCHANGED <<authenticatedClients, userSockets, lookups, engineVars, concVars, now,
                 lastPrice, currentMinuteStart, markets, settleInvoked, feedVars, inbox>>

\* an auth message with a valid token: db.getUser(msg.userId) is called
AuthMessage(c, u) ==
  /\ readyState[c] = "open"
  /\ ~(<<c, u>> \in lookups)
  /\ lookups' = lookups \cup {<<c, u>>}
  /\ UNCHANGED <<readyState, authenticatedClients, userSockets, engineVars, concVars, now,
                 lastPrice, currentMinuteStart, markets, settleInvoked, feedVars, inbox>>

\* db.getUser(...).then(user => ...) for a user that exists
AuthResolve(c, u) ==
  /\ <<c, u>> \in lookups
  /\ lookups' = lookups \ {<<c, u>>}
  /\ authenticatedClients' = [authenticatedClients EXCEPT ![c] = u]
  /\ userSockets' = [userSockets EXCEPT ![u] = @ \cup {c}]
  /\ UNCHANGED <<readyState, engineVars, concVars, now, lastPrice, currentMinuteStart,
                 markets, settleInvoked, feedVars, inbox>>

\* ws.on('close') and ws.on('error')
WsEnd(c) ==
  /\ readyState[c] = "open"
  /\ readyState' = [readyState EXCEPT ![c] = "closed"]
  /\ userSockets' = IF authenticatedClients[c] # NoUser
                      THEN [userSockets EXCEPT ![authenticatedClients[c]] = @ \ {c}]
                      ELSE userSockets
  /\ authenticatedClients' = [authenticatedClients EXCEPT ![c] = NoUser]
  /\ UNCHANGED <<lookups, engineVars, concVars, now, lastPrice, currentMinuteStart,
                 markets, settleInvoked, feedVars, inbox>>

InitAuth == EngineInit("active") /\ ConcIdle /\ LifeIdle

NextAuth ==
  \/ \E c \in Conns : WsConnect(c)
  \/ \E c \in Conns, u \in AuthUsers : AuthMessage(c, u)
  \/ \E c \in Conns, u \in AuthUsers : AuthResolve(c, u)
  \/ \E c \in Conns : WsEnd(c)

SpecAuth == InitAuth /\ [][NextAuth]_vars

\* C40: a connection receives the pushes of the user it is authenticated as
\* and of nobody else: every connection in the socket set of a user is
\* recorded in authenticatedClients for that user (so it is in the set of at
\* most one user), and a closed connection is in no socket set
SocketsOfOneUser ==
  \A c \in Conns, u \in AuthUsers :
    c \in userSockets[u] =>
      (authenticatedClients[c] = u /\ readyState[c] # "closed")

\* ------------------------------------------------------------------------
\* SpecStop: the adapter of SpecAdapter, stopped by its owner
\* ------------------------------------------------------------------------
\* disconnect(): this.ws.close(), this.ws = null, connected = false; the
\* socket closes later and its handlers stay registered
disconnect(e) ==
  [e EXCEPT !.ws = IF @ \in {"connecting", "open"} THEN "closing" ELSE @,
            !.connected = FALSE]

\* aggregator.stop() calls exchange.disconnect()
AdapterStop ==
  /\ exchange.ws # "none"
  /\ ~exchange.stopped
  /\ exchange' = [disconnect(exchange) EXCEPT !.stopped = TRUE]
  /\ UNCHANGED <<engineVars, concVars, now, lastPrice, currentMinuteStart, markets,
                 settleInvoked, prices, aggregate, feedNow, inbox, wsVars>>

NextStop == NextAdapter \/ AdapterStop

SpecStop == InitAdapter /\ [][NextStop]_vars

\* C39: once disconnect() was called the adapter sets no reconnect timer and
\* opens no connection
StoppedStaysDown ==
  [][exchange.stopped =>
       /\ Len(exchange'.timers) <= Len(exchange.timers)
       /\ (exchange'.ws = "connecting" => exchange.ws = "connecting")]_vars

\* ------------------------------------------------------------------------
\* Cascading stop triggers (SpecCascade)
\* ------------------------------------------------------------------------
\* at most two stop-limit orders among three orders, with stops at both prices
MaxCascadeOrders == 3
MaxCascadeStops == 2
CascadeStopGrid == {30, 60}

\* handlePlaceOrder, order type stop_limit
CascadeStop(u, so, n, sp, p) ==
  /\ phase = "active"
  /\ NumOfType({"stop_limit"}) < MaxCascadeStops
  /\ \E r \in {placeStopLimitOrder(Cur, u, so[1], so[2], n, sp, p, clock)} :
       Set(r.st, r.err)
  /\ UNCHANGED <<positions, provisions, phase, concVars, lifeVars>>

NextCascade ==
  \/ \E u \in Users, so \in SideOutcomes, n \in ShareGrid, p \in PriceGrid :
       HasBudget(MaxCascadeOrders) /\ PlaceLimit(u, so, n, p)
  \/ \E u \in Users, so \in SideOutcomes, n \in ShareGrid, sp \in CascadeStopGrid,
        p \in PriceGrid : HasBudget(MaxCascadeOrders) /\ CascadeStop(u, so, n, sp, p)

SpecCascade == Init /\ [][NextCascade]_vars

\* a stop check of this step took the order out of the stop set and put it
\* through matching: it filled or came to rest
TriggeredLive(stop) ==
  /\ \A j \in 1..Len(stops') : stops'[j].id # stop.id
  /\ stop.id <= Len(orders')
  /\ orders'[stop.id].status \in {"open", "partially_filled", "filled"}

\* the top of the book after the step
TopBidAfter == IF Len(bids') > 0 THEN ent'[bids'[1]].price ELSE NoPrice
TopAskAfter == IF Len(asks') > 0 THEN ent'[asks'[1]].price ELSE NoPrice

\* C32: stop triggers cascade: when a request triggered a stop-limit order that
\* filled or came to rest, no stop whose trigger condition holds against the
\* new top of the book is left parked when the request is over
StopsCascade ==
  [][(\E i \in 1..Len(stops) : TriggeredLive(stops[i]))
       => \A j \in 1..Len(stops') :
            ~shouldTrigger(stops'[j], TopBidAfter, TopAskAfter)]_vars

\* ------------------------------------------------------------------------
\* SpecInflight: the round is settled while placeLimitOrder calls are in
\* flight.  settleRound's ledger writes are one transaction, which is rolled
\* back as a whole or committed as a whole, and its in-memory writes follow
\* the COMMIT without an awaited call in between
\* ------------------------------------------------------------------------
InFlight(p) == ~(procs[p].pc \in {"idle", "done"})

\* handlePlaceOrder lets a placement start while the phase is 'active'
InflightStart(p, so, n, price) == phase = "active" /\ ConcStart(p, so, n, price)

\* checkMinuteBoundary: settleMarket, with a placement under way
SettleInFlight(outcome) == (\E p \in Takers : InFlight(p)) /\ Settle(outcome)

NextInflight ==
  \/ \E p \in Takers :
       \/ \E so \in ConcSideOutcomes, n \in ShareGrid, price \in PriceGrid :
            InflightStart(p, so, n, price)
       \/ ConcDeduct(p)
       \/ ConcInsert(p)
       \/ ConcCredit(p)
       \/ ConcTrade(p)
       \/ ConcUpdResting(p)
       \/ ConcUpdIncoming(p)
       \/ ConcGetResting(p)
       \/ ConcCommit(p)
       \/ ConcGetFinal(p)
       \/ ConcStops(p)
  \/ \E outcome \in {"up", "down"} : SettleInFlight(outcome)

SpecInflight == InitConc /\ [][NextInflight]_vars

\* C35: no reservation outlives its round: when the round was settled with a
\* placement in flight and every call has returned, no order is open,
\* partially filled or stopped, the book and the stop set are empty and no
\* dollar is reserved
NoReservationOutlives ==
  (phase = "closed" /\ \A p \in Takers : ~InFlight(p))
    => /\ \A k \in 1..Len(orders) : ~Cancellable(orders[k])
       /\ bids = <<>> /\ asks = <<>> /\ stops = <<>>
       /\ ReservedDollars = 0

\* ------------------------------------------------------------------------
\* The book and the ledger (SpecFok)
\* ------------------------------------------------------------------------
\* the orders in the book and in the stop set
BookIds == {bids[i] : i \in 1..Len(bids)} \cup {asks[i] : i \in 1..Len(asks)}
StopIds == {stops[i].id : i \in 1..Len(stops)}

\* the limit and stop-limit orders the ledger holds as open or partially
\* filled with shares remaining, and the orders it holds as stopped
LedgerResting ==
  {k \in 1..Len(orders) :
     /\ orders[k].order_type \in {"limit", "stop_limit"}
     /\ orders[k].status \in {"open", "partially_filled"}
     /\ orders[k].remaining_shares > 0}
LedgerStopped == {k \in 1..Len(orders) : orders[k].status = "stopped"}

\* no request is between its first awaited call and its return
EngineIdle == \A p \in DOMAIN procs : procs[p].pc \in {"idle", "done"}

\* C33: while no operation is in progress the book holds exactly the limit
\* and stop-limit orders that are open or partially filled with shares
\* remaining, each entry with the ledger's remaining shares, and the stop set
\* exactly the stopped orders, also after operations that were rolled back
BookMirrorsLedger ==
  EngineIdle
    => /\ BookIds = LedgerResting
       /\ \A id \in BookIds \cap LedgerResting :
            ent[id].remainingShares = orders[id].remaining_shares
       /\ StopIds = LedgerStopped

\* ------------------------------------------------------------------------
\* SpecCross: SpecConc with placements on both sides of the book
\* ------------------------------------------------------------------------
CrossSideOutcomes == {<<"sell", "yes">>, <<"buy", "yes">>}

NextCross ==
  \E p \in Takers :
    \/ \E so \in CrossSideOutcomes, n \in ShareGrid, price \in PriceGrid :
         ConcStart(p, so, n, price)
    \/ ConcDeduct(p)
    \/ ConcInsert(p)
    \/ ConcCredit(p)
    \/ ConcTrade(p)
    \/ ConcUpdResting(p)
    \/ ConcUpdIncoming(p)
    \/ ConcGetResting(p)
    \/ ConcCommit(p)
    \/ ConcGetFinal(p)
    \/ ConcStops(p)

SpecCross == InitConc /\ [][NextCross]_vars

\* C36: while no operation is in progress no bid is at or above the price of
\* another user's ask
BookNotCrossed ==
  EngineIdle
    => \A i \in 1..Len(bids), j \in 1..Len(asks) :
         ent[bids[i]].userId # ent[asks[j]].userId
           => ent[bids[i]].price < ent[asks[j]].price

\* ------------------------------------------------------------------------
\* The refund of price improvement (Spec)
\* ------------------------------------------------------------------------
\* this step is a limit placement that was accepted, with no stop order parked
\* that its fills could trigger
LimitPlaced ==
  /\ Len(orders') = Len(orders) + 1
  /\ orders'[Len(orders')].order_type = "limit"
  /\ stops = <<>>

\* the placement leaves the taker with its reservation less the price
\* improvement of its fills, and every other user, the makers of the fills
\* among them, with the balance they had
ImprovementRefunded ==
  LimitPlaced =>
    LET row == orders'[Len(orders')]
    IN /\ balance'[row.user_id] =
            balance[row.user_id] - row.cost_per_share * row.shares
              + ImprovementOf(trades', row.id, row, Len(trades) + 1)
       /\ refunded' - refunded = ImprovementOf(trades', row.id, row, Len(trades) + 1)
       /\ \A u \in Users \ {row.user_id} : balance'[u] = balance[u]

Checkers == {1, 2}
MaxTriggerOrders == 3
MaxTriggerStops == 2

\* the request slots are taken in their order
SlotFree(c) == procs[c].pc = "idle" /\ \A b \in Checkers : b < c => procs[b].pc # "idle"

IdleCheck == [pc |-> "idle", triggered |-> <<>>, k |-> 1, history |-> <<>>]

\* the engine with the stop set out of sight, for the part of a placement
\* that does not read it
BeforeStopCheck == [Cur EXCEPT !.stops = <<>>]

\* placeLimitOrder up to `if (fills.length > 0) await this.checkStopOrders(...)`
TriggerLimit(c, u, so, n, p) ==
  /\ phase = "active"
  /\ SlotFree(c)
  /\ HasBudget(MaxTriggerOrders)
  /\ \E r \in {placeLimitOrder(BeforeStopCheck, u, so[1], so[2], n, p, clock)} :
       /\ Set([r.st EXCEPT !.stops = stops], r.err)
       /\ procs' = [procs EXCEPT ![c].pc =
            IF r.err = Ok /\ Len(r.st.trades) > Len(trades) THEN "check" ELSE "idle"]
  /\ UNCHANGED <<positions, provisions, phase, locks, lifeVars>>

\* placeStopLimitOrder up to `await this.checkStopOrders(roundStart)`
TriggerStop(c, u, so, n, sp, p) ==
  /\ phase = "active"
  /\ SlotFree(c)
  /\ HasBudget(MaxTriggerOrders)
  /\ NumOfType({"stop_limit"}) < MaxTriggerStops
  /\ \E r \in {parkStopOrder(Cur, u, so[1], so[2], n, sp, p, clock)} :
       /\ Set(r.st, r.err)
       /\ procs' = [procs EXCEPT ![c].pc = IF r.err = Ok THEN "check" ELSE "idle"]
  /\ UNCHANGED <<positions, provisions, phase, locks, lifeVars>>

\* checkStopOrders, lines 746-776: the stop set is read, partitioned and
\* written back
TriggerPartition(c) ==
  /\ procs[c].pc = "check"
  /\ LET bestBid == TopBid
         bestAsk == TopAsk
         triggered == SelectSeq(stops, LAMBDA s : shouldTrigger(s, bestBid, bestAsk))
     IN /\ stops' = IF Len(stops) = 0 THEN stops
                    ELSE partitionRemaining(stops, bestBid, bestAsk)
        /\ procs' = [procs EXCEPT ![c] =
             [pc |-> IF Len(triggered) = 0 THEN "idle" ELSE "trigger",
              triggered |-> triggered, k |-> 1,
              history |-> @.history \o [j \in 1..Len(triggered) |-> triggered[j].id]]]
  /\ UNCHANGED <<balance, orders, trades, positions, provisions, bids, asks, ent, phase,
                 clock, deducted, refunded, accepted, notices, lastError, locks, lifeVars>>

\* one iteration of `for (const stop of triggered)`, lines 778-841
TriggerNext(c) ==
  /\ procs[c].pc = "trigger"
  /\ LET P == procs[c]
     IN /\ \E st \in {triggerOne(Cur, P.triggered[P.k])} : Set(st, lastError)
        /\ procs' = [procs EXCEPT ![c] =
             [@ EXCEPT !.k = P.k + 1,
                       !.pc = IF P.k + 1 > Len(P.triggered) THEN "idle" ELSE "trigger"]]
  /\ UNCHANGED <<positions, provisions, phase, locks, lifeVars>>

InitTrigger ==
  EngineInit("active") /\ procs = [c \in Checkers |-> IdleCheck] /\ locks = {} /\ LifeIdle

NextTrigger ==
  \/ \E c \in Checkers, u \in Users, so \in CancelSideOutcomes, n \in ShareGrid,
        p \in PriceGrid : TriggerLimit(c, u, so, n, p)
  \/ \E c \in Checkers, u \in Users, so \in CancelSideOutcomes, n \in StopShareGrid,
        sp \in StopPriceGrid, p \in PriceGrid : TriggerStop(c, u, so, n, sp, p)
  \/ \E c \in Checkers : TriggerPartition(c)
  \/ \E c \in Checkers : TriggerNext(c)

\* an awaited call of a stop check returns
SpecTrigger ==
  InitTrigger /\ [][NextTrigger]_vars
    /\ \A c \in Checkers : WF_vars(TriggerPartition(c) \/ TriggerNext(c))

\* the orders the stop checks have taken out of the stop set, call after call
AllTriggered == procs[1].history \o procs[2].history

\* no order was taken by two calls, each is a stop-limit order, and there
\* are no more triggers than stop-limit orders
TriggeredOnce ==
  /\ \A i, j \in 1..Len(AllTriggered) : i # j => AllTriggered[i] # AllTriggered[j]
  /\ \A i \in 1..Len(AllTriggered) :
       /\ AllTriggered[i] \in 1..Len(orders)
       /\ orders[AllTriggered[i]].order_type = "stop_limit"
       /\ ~(AllTriggered[i] \in StopIds)
  /\ Len(AllTriggered) <= NumOfType({"stop_limit"})

\* C38: each stop-limit order is triggered at most once, whatever the
\* interleaving of the stop checks: an order one checkStopOrders call took out
\* of the stop set is handled by no other call; the triggers are no more than
\* the stop-limit orders placed; and every checkStopOrders call returns
StopTriggersOnce ==
  /\ [](TriggeredOnce)
  /\ \A c \in Checkers : (procs[c].pc # "idle") ~> (procs[c].pc = "idle")

\* two stop checks are in their loops at the same time, each with an order
TwoChecksInFlight ==
  /\ procs[1].pc = "trigger" /\ procs[2].pc = "trigger"
  /\ Len(procs[1].triggered) > 0 /\ Len(procs[2].triggered) > 0

====
